---- MODULE Spec2Model ----
(***************************************************************************)
(* barsPlus: the data reshaper (initData) of ldw-barsPlus.js and the       *)
(* topological sort it uses, as a state machine over the chart state g.    *)
(***************************************************************************)
EXTENDS Integers, Sequences, FiniteSets, TLC

VARIABLES
  g,        \* the chart state object (this / g in ldw-barsPlus.js)
  pc,       \* none at first, props when the properties are set and initData is
            \* due, then the return the last initData call took: guard, oneDim, twoDim
  raised    \* whether the last initData call raised to its caller

vars == <<g, pc, raised>>

----------------------------------------------------------------------------
(* JavaScript numbers.  A number is n/d in lowest terms with d > 0; d = 0  *)
(* stands for the non-finite values: 0/0 is NaN, 1/0 is Infinity and -1/0  *)
(* is -Infinity.                                                           *)

Abs(x) == IF x < 0 THEN -x ELSE x

Sign(x) == IF x < 0 THEN -1 ELSE IF x > 0 THEN 1 ELSE 0

RECURSIVE GCD(_, _)
GCD(a, b) == IF b = 0 THEN a ELSE GCD(b, a % b)

RatBy(n, d, k) == [n |-> (Sign(d) * n) \div k, d |-> Abs(d) \div k]

Rat(n, d) ==
  IF d = 0 THEN [n |-> Sign(n), d |-> 0] ELSE RatBy(n, d, GCD(Abs(n), Abs(d)))

Num(n) == [n |-> n, d |-> 1]

NaN == [n |-> 0, d |-> 0]

IsFinite(a) == a.d # 0

IsNaN(a) == a.d = 0 /\ a.n = 0

\* a + b of JavaScript
NumAdd(a, b) ==
  IF IsNaN(a) \/ IsNaN(b) THEN NaN
  ELSE IF a.d = 0 /\ b.d = 0 THEN (IF a.n = b.n THEN a ELSE NaN)
  ELSE IF a.d = 0 THEN a
  ELSE IF b.d = 0 THEN b
  ELSE Rat(a.n * b.d + b.n * a.d, a.d * b.d)

\* a - b of JavaScript
NumSub(a, b) == NumAdd(a, [n |-> -b.n, d |-> b.d])

\* a / b of JavaScript (x/0 is +-Infinity, 0/0 is NaN)
NumDiv(a, b) ==
  IF IsNaN(a) \/ IsNaN(b) THEN NaN
  ELSE IF a.d = 0 /\ b.d = 0 THEN NaN
  ELSE IF a.d = 0 THEN [n |-> a.n * (IF b.n < 0 THEN -1 ELSE 1), d |-> 0]
  ELSE IF b.d = 0 THEN Num(0)
  ELSE Rat(a.n * b.d, a.d * b.n)

\* a * b of JavaScript (0 * Infinity is NaN)
NumMul(a, b) ==
  IF IsNaN(a) \/ IsNaN(b) THEN NaN
  ELSE IF (a.d = 0 /\ b.n = 0) \/ (b.d = 0 /\ a.n = 0) THEN NaN
  ELSE IF a.d = 0 \/ b.d = 0 THEN [n |-> Sign(a.n) * Sign(b.n), d |-> 0]
  ELSE Rat(a.n * b.n, a.d * b.d)

\* a < b of JavaScript (false when either is NaN)
NumLt(a, b) ==
  IF IsNaN(a) \/ IsNaN(b) THEN FALSE
  ELSE IF a.d = 0 /\ b.d = 0 THEN a.n < b.n
  ELSE a.n * b.d < b.n * a.d

\* a <= b of JavaScript (false when either is NaN)
NumLe(a, b) == ~IsNaN(a) /\ ~IsNaN(b) /\ ~NumLt(b, a)

\* the integer floor of n/d for d > 0
FloorDiv(n, d) == IF n >= 0 THEN n \div d ELSE -((-n + d - 1) \div d)

\* Math.floor(a)
NumFloor(a) == IF a.d = 0 THEN a ELSE Num(FloorDiv(a.n, a.d))

\* Math.round(a): the floor of a + 1/2
NumRound(a) == IF a.d = 0 THEN a ELSE Num(FloorDiv(2 * a.n + a.d, 2 * a.d))

----------------------------------------------------------------------------
(* Arrays are sequences (index 1 is JavaScript's index 0).                 *)

\* arr.indexOf(x), 1-based; 0 when x is not in arr (JavaScript's -1)
IndexOf(arr, x) ==
  IF \E i \in 1..Len(arr) : arr[i] = x
  THEN CHOOSE i \in 1..Len(arr) : arr[i] = x /\ \A k \in 1..(i - 1) : arr[k] # x
  ELSE 0

Contains(arr, x) == \E i \in 1..Len(arr) : arr[i] = x

\* the distinct elements of arr in first-seen order:
\* if (q.indexOf(x) == -1) q.push(x)
RECURSIVE FirstSeenFrom(_, _, _)
FirstSeenFrom(arr, k, acc) ==
  IF k > Len(arr) THEN acc
  ELSE FirstSeenFrom(arr, k + 1,
         IF Contains(acc, arr[k]) THEN acc ELSE Append(acc, arr[k]))

FirstSeen(arr) == FirstSeenFrom(arr, 1, <<>>)

RECURSIVE Concat(_)
Concat(arrs) ==
  IF arrs = <<>> THEN <<>> ELSE Head(arrs) \o Concat(Tail(arrs))

RECURSIVE NumSum(_)
NumSum(arr) ==
  IF arr = <<>> THEN Num(0) ELSE NumAdd(Head(arr), NumSum(Tail(arr)))

----------------------------------------------------------------------------
(* toposort(nodes, edges): depth-first topological sort.  The state of the *)
(* sort is [sorted, visited, cursor, thrown]; thrown is the exception.     *)

Undefined == "undefined"

RECURSIVE visit(_, _, _, _, _, _)
RECURSIVE visitOutgoing(_, _, _, _, _, _)

\* the do { child = outgoing[--i][1]; visit(child, nodes.indexOf(child), preds) }
\* while (i) loop, entered only if (i = outgoing.length)
visitOutgoing(nodes, edges, outgoing, i, preds, st) ==
  IF i = 0 \/ st.thrown THEN st
  ELSE visitOutgoing(nodes, edges, outgoing, i - 1, preds,
         visit(nodes, edges, outgoing[i][2], IndexOf(nodes, outgoing[i][2]),
               preds, st))

visitEach(nodes, edges, outgoing, preds, st) ==
  visitOutgoing(nodes, edges, outgoing, Len(outgoing), preds, st)

\* sorted[--cursor] = node, unless a visit below threw
place(node, st) ==
  IF st.thrown THEN st
  ELSE [st EXCEPT !.cursor = @ - 1,
                  !.sorted = IF st.cursor - 1 \in DOMAIN @
                             THEN [@ EXCEPT ![st.cursor - 1] = node]
                             ELSE @]

\* the visit without the test of the predecessors
visitUnchecked(nodes, edges, node, i, predecessors, st) ==
  IF i \in st.visited THEN st
  ELSE place(node,
         visitEach(nodes, edges, SelectSeq(edges, LAMBDA edge : edge[1] = node),
                   Append(predecessors, node),
                   [st EXCEPT !.visited = @ \cup {i}]))

\* the visit with sorted[--cursor] = node done before the outgoing edges
visitEager(nodes, edges, node, i, predecessors, st) ==
  IF Contains(predecessors, node) THEN [st EXCEPT !.thrown = TRUE]
  ELSE IF i \in st.visited THEN st
  ELSE visitEach(nodes, edges, SelectSeq(edges, LAMBDA edge : edge[1] = node),
                 Append(predecessors, node),
                 place(node, [st EXCEPT !.visited = @ \cup {i}]))

\* visit(node, i, predecessors)
visit(nodes, edges, node, i, predecessors, st) ==
  IF Contains(predecessors, node) THEN [st EXCEPT !.thrown = TRUE]
  ELSE IF i \in st.visited THEN st
  ELSE place(node,
         visitEach(nodes, edges, SelectSeq(edges, LAMBDA edge : edge[1] = node),
                   Append(predecessors, node),
                   [st EXCEPT !.visited = @ \cup {i}]))

\* the while (i--) { if (!visited[i]) visit(nodes[i], i, []) } loop
RECURSIVE toposortLoop(_, _, _, _)
toposortLoop(nodes, edges, i, st) ==
  IF i = 0 \/ st.thrown THEN st
  ELSE toposortLoop(nodes, edges, i - 1,
         IF i \in st.visited THEN st
         ELSE visit(nodes, edges, nodes[i], i, <<>>, st))

sortResult(st) == [thrown |-> st.thrown, sorted |-> st.sorted]

\* [thrown |-> TRUE] for the cyclic-dependency error, else the sorted array
toposort(nodes, edges) ==
  sortResult(toposortLoop(nodes, edges, Len(nodes),
               [sorted  |-> [k \in 1..Len(nodes) |-> Undefined],
                visited |-> {},
                cursor  |-> Len(nodes) + 1,
                thrown  |-> FALSE]))

----------------------------------------------------------------------------
(* Cells of the hypercube rows: {qElemNumber, qNum, qText}.                *)

Cell(e, num, txt) == [qElemNumber |-> e, qNum |-> num, qText |-> txt]

\* a selection key: a scalar element id, or a pair of them ([e1, e2])
ElemScalar(e) == [scalar |-> e]

ElemPair(e1, e2) == [pair |-> <<e1, e2>>]

\* toFixed(1) of tenths/10, then "%"
PctText(negative, tenths) ==
  (IF negative THEN "-" ELSE "") \o ToString(tenths \div 10) \o "."
    \o ToString(tenths % 10) \o "%"

\* d3.format(".1%")(x): x * 100, toFixed(1), "%"; the sign is printed first
Fmt1Pct(x) ==
  IF IsNaN(x) THEN "NaN%"
  ELSE IF x.d = 0 THEN (IF x.n < 0 THEN "-Infinity%" ELSE "Infinity%")
  ELSE PctText(x.n < 0, (2000 * Abs(x.n) + x.d) \div (2 * x.d))

----------------------------------------------------------------------------
(* initData                                                                *)

\* the guard without the width test
guardStopsEmpty(gg) == gg.rawData = <<>>

\* the input-shape guard: the two early returns
guardStops(gg) ==
  \/ gg.rawData = <<>>
  \/ gg.defDims + gg.defMeas # Len(gg.rawData[1])

\* a measure cell carrying element number 0
measureCellSelectable(gg, j) == Cell(0, Num(j), gg.measures[j])

\* the rows after the multiple-measure transformation
measureCell(gg, j) == Cell(-1, Num(j), gg.measures[j])

\* the transformation reading the measure of a one-dimension row at j
inDataOfShifted(gg) ==
  IF gg.defDims = 0
  THEN Concat([i \in 1..Len(gg.rawData) |->
                [j \in 1..Len(gg.measures) |->
                  <<measureCell(gg, j), gg.rawData[i][j]>>]])
  ELSE IF gg.defDims = 1 /\ gg.defMeas > 1
  THEN Concat([i \in 1..Len(gg.rawData) |->
                [j \in 1..Len(gg.measures) |->
                  <<gg.rawData[i][1], measureCell(gg, j), gg.rawData[i][j]>>]])
  ELSE gg.rawData

inDataOf(gg) ==
  IF gg.defDims = 0
  THEN Concat([i \in 1..Len(gg.rawData) |->
                [j \in 1..Len(gg.measures) |->
                  <<measureCell(gg, j), gg.rawData[i][j]>>]])
  ELSE IF gg.defDims = 1 /\ gg.defMeas > 1
  THEN Concat([i \in 1..Len(gg.rawData) |->
                [j \in 1..Len(gg.measures) |->
                  <<gg.rawData[i][1], measureCell(gg, j), gg.rawData[i][j + 1]>>]])
  ELSE gg.rawData

\* cf(d): the colour attribute
cf(d) == 0

\* r: one cf per label pushed to q
coloursOf(q) == [i \in 1..Len(q) |-> cf(q[i])]

dim1Of(inData) == [i \in 1..Len(inData) |-> inData[i][1].qText]

dim2Of(inData) == [i \in 1..Len(inData) |-> inData[i][2].qText]

\* the one-dimension path without g.normalized = false
oneDimAsConfigured(gg, inData) ==
  [gg EXCEPT
     !.nDims = 1,
     !.data = [i \in 1..Len(inData) |->
                [dim1 |-> inData[i][1].qText, offset |-> inData[i][2].qNum]],
     !.flatData = [i \in 1..Len(inData) |->
                    [dim1 |-> inData[i][1].qText,
                     dim2 |-> inData[i][1].qText,
                     offset |-> Num(0),
                     qNum |-> inData[i][2].qNum,
                     qText |-> inData[i][2].qText,
                     qTextPct |-> "",
                     qElemNumber |-> ElemScalar(inData[i][1].qElemNumber)]],
     !.allDim2 = FirstSeen(dim1Of(inData)),
     !.allCol2 = coloursOf(FirstSeen(dim1Of(inData)))]

\* Process one dimension data
oneDim(gg, inData) ==
  [gg EXCEPT
     !.nDims = 1,
     !.normalized = FALSE,
     !.data = [i \in 1..Len(inData) |->
                [dim1 |-> inData[i][1].qText, offset |-> inData[i][2].qNum]],
     !.flatData = [i \in 1..Len(inData) |->
                    [dim1 |-> inData[i][1].qText,
                     dim2 |-> inData[i][1].qText,
                     offset |-> Num(0),
                     qNum |-> inData[i][2].qNum,
                     qText |-> inData[i][2].qText,
                     qTextPct |-> "",
                     qElemNumber |-> ElemScalar(inData[i][1].qElemNumber)]],
     !.allDim2 = FirstSeen(dim1Of(inData)),
     !.allCol2 = coloursOf(FirstSeen(dim1Of(inData)))]

\* the adjacency edges: label p2 immediately followed by c2 in consecutive rows
\* of the same dim1 (p1 starts as "", p2 as undefined)
RECURSIVE edgeScan(_, _, _)
edgeScan(inData, k, st) ==
  IF k > Len(inData) THEN st.edges
  ELSE edgeScan(inData, k + 1,
         IF inData[k][1].qText # st.p1
         THEN [p1 |-> inData[k][1].qText, p2 |-> inData[k][2].qText,
               edges |-> st.edges]
         ELSE [p1 |-> st.p1, p2 |-> inData[k][2].qText,
               edges |-> IF Contains(st.edges, <<st.p2, inData[k][2].qText>>)
                         THEN st.edges
                         ELSE Append(st.edges, <<st.p2, inData[k][2].qText>>)])

edgesOf(inData) == edgeScan(inData, 1, [p1 |-> "", p2 |-> Undefined, edges |-> <<>>])

\* the sort without the catch: the cyclic-dependency error leaves initData
uncaught(q, r, res) ==
  IF res.thrown
  THEN [q |-> q, r |-> r, raised |-> TRUE]
  ELSE [q |-> res.sorted,
        r |-> [i \in 1..Len(q) |-> r[IndexOf(q, res.sorted[i])]],
        raised |-> FALSE]

\* catch (err) { qs = q }; else r = rs, the order of qs replicated in r:
\* rs.push(r[ps.indexOf(qs[i])])
caught(q, r, res) ==
  IF res.thrown
  THEN [q |-> q, r |-> r, raised |-> FALSE]
  ELSE [q |-> res.sorted,
        r |-> [i \in 1..Len(q) |-> r[IndexOf(q, res.sorted[i])]],
        raised |-> FALSE]

\* try { qs = this.toposort(q, edges); ... } catch (err) { ... }
trySort(q, r, edges) == caught(q, r, toposort(q, edges))

\* arr.sort by the position of each entry's key in order (the keys are distinct)
arrangedBy(arr, keys) ==
  [i \in 1..Len(keys) |-> arr[CHOOSE m \in 1..Len(arr) : arr[m].key = keys[i]]]

sortByOrder(arr, order) ==
  arrangedBy(arr, SelectSeq(order, LAMBDA k : \E i \in 1..Len(arr) : arr[i].key = k))

\* d3.nest().key(d[0].qText).key(d[1].qText).entries(inData): the keys in the
\* order they are first seen, every leaf with its rows
nestLeaves(rows, keys2) ==
  [b \in 1..Len(keys2) |->
    [key |-> keys2[b],
     values |-> SelectSeq(rows, LAMBDA d : d[2].qText = keys2[b])]]

nestNode(key1, rows) ==
  [key |-> key1, values |-> nestLeaves(rows, FirstSeen(dim2Of(rows)))]

nestBy(inData, keys1) ==
  [a \in 1..Len(keys1) |->
    nestNode(keys1[a], SelectSeq(inData, LAMBDA d : d[1].qText = keys1[a]))]

nest(inData) == nestBy(inData, FirstSeen(dim1Of(inData)))

\* the nest with every node's values left in arrival order
sortedNodesAsArrived(n, q) == n

\* the two sorts of the nest: every node's values by q, then the nodes by p
sortedNodes(n, q) ==
  [a \in 1..Len(n) |-> [key |-> n[a].key, values |-> sortByOrder(n[a].values, q)]]

sortedNest(inData, p, q) == sortByOrder(sortedNodes(nest(inData), q), p)

\* the Segment pushed for the leaf d.values[j] at the offset t
segmentOf(defDims, leaf, dim2, t) ==
  [dim2 |-> dim2,
   qNum |-> leaf.values[1][3].qNum,
   qText |-> leaf.values[1][3].qText,
   qElemNumber |-> IF defDims = 2
                   THEN ElemPair(leaf.values[1][1].qElemNumber,
                                 leaf.values[1][2].qElemNumber)
                   ELSE ElemScalar(leaf.values[1][1].qElemNumber),
   offset |-> t]

\* the push with the offset taken after t += num
pushedLate(acc, seg) ==
  [t |-> NumAdd(acc.t, seg.qNum),
   v |-> Append(acc.v, [seg EXCEPT !.offset = NumAdd(acc.t, seg.qNum)])]

\* v.push(seg); t += num
pushed(acc, seg) == [t |-> NumAdd(acc.t, seg.qNum), v |-> Append(acc.v, seg)]

\* a label of q without a row in this Category: num = 0, txt = "-", elm = [],
\* and nothing is pushed
skipped(acc) == acc

\* the loop over q of one Category
RECURSIVE stackLoop(_, _, _, _, _, _)
stackLoop(defDims, values, q, i, j, acc) ==
  IF i > Len(q) THEN acc
  ELSE IF Len(values) < j \/ values[j].key # q[i]
  THEN stackLoop(defDims, values, q, i + 1, j, skipped(acc))
  ELSE stackLoop(defDims, values, q, i + 1, j + 1,
                 pushed(acc, segmentOf(defDims, values[j], q[i], acc.t)))

\* the normalization that rescales the offset and leaves qNum as it is
finishSegmentRaw(normalized, e, dim1, t) ==
  IF normalized
  THEN [dim1 |-> dim1, dim2 |-> e.dim2, qText |-> e.qText,
        qElemNumber |-> e.qElemNumber,
        offset |-> NumDiv(e.offset, t),
        qNum |-> e.qNum,
        qTextPct |-> Fmt1Pct(NumDiv(e.qNum, t))]
  ELSE [dim1 |-> dim1, dim2 |-> e.dim2, qText |-> e.qText,
        qElemNumber |-> e.qElemNumber,
        offset |-> e.offset, qNum |-> e.qNum, qTextPct |-> Undefined]

\* v.forEach: dim1, and the normalization by the Category total t
finishSegment(normalized, e, dim1, t) ==
  IF normalized
  THEN [dim1 |-> dim1, dim2 |-> e.dim2, qText |-> e.qText,
        qElemNumber |-> e.qElemNumber,
        offset |-> NumDiv(e.offset, t),
        qNum |-> NumDiv(e.qNum, t),
        qTextPct |-> Fmt1Pct(NumDiv(e.qNum, t))]
  ELSE [dim1 |-> dim1, dim2 |-> e.dim2, qText |-> e.qText,
        qElemNumber |-> e.qElemNumber,
        offset |-> e.offset, qNum |-> e.qNum, qTextPct |-> Undefined]

\* struc.push({dim1: d.key, offset: t, values: v})
categoryFrom(normalized, key, acc) ==
  [dim1 |-> key, offset |-> acc.t,
   values |-> [k \in 1..Len(acc.v) |->
                finishSegment(normalized, acc.v[k], key, acc.t)]]

categoryOf(gg, d, q) ==
  categoryFrom(gg.normalized, d.key,
               stackLoop(gg.defDims, d.values, q, 1, 1, [t |-> Num(0), v |-> <<>>]))

strucOf(gg, n, q) == [idx \in 1..Len(n) |-> categoryOf(gg, n[idx], q)]

\* the delta record of the Segments p[k] and c[k]
deltaOf(pk, ck) ==
  [dim1p |-> pk.dim1,
   dim1c |-> ck.dim1,
   dim2 |-> pk.dim2,
   delta |-> NumSub(ck.qNum, pk.qNum),
   deltaPct |-> 0,
   measureNumber |-> Undefined,
   points |-> <<pk.offset, ck.offset, pk.qNum, ck.qNum>>]

\* for (k = 0; k < p.length; k++) if (p[k] && c[k]) deltas.push(...)
deltasAt(p, c, ks) == [x \in 1..Len(ks) |-> deltaOf(p[ks[x]], c[ks[x]])]

deltasOf(p, c) ==
  deltasAt(p, c, SelectSeq([k \in 1..Len(p) |-> k], LAMBDA k : k <= Len(c)))

\* the delta records of every Category idx > 0 against Category idx - 1
allDeltas(showDeltas, struc) ==
  Concat([idx \in 1..Len(struc) |->
           IF idx > 1 /\ showDeltas
           THEN deltasOf(struc[idx - 1].values, struc[idx].values)
           ELSE <<>>])

\* the assignments that end the two-dimension pass
twoDimOut(gg, sorted, struc) ==
  IF sorted.raised
  THEN [g |-> [gg EXCEPT !.nDims = 2], raised |-> TRUE]
  ELSE [g |-> [gg EXCEPT !.nDims = 2,
                         !.data = struc,
                         !.flatData = Concat([idx \in 1..Len(struc) |->
                                               struc[idx].values]),
                         !.allDim2 = sorted.q,
                         !.allCol2 = sorted.r,
                         !.deltas = allDeltas(gg.showDeltas, struc)],
        raised |-> FALSE]

twoDimSorted(gg, inData, p, sorted) ==
  twoDimOut(gg, sorted, strucOf(gg, sortedNest(inData, p, sorted.q), sorted.q))

twoDimFrom(gg, inData, q) ==
  twoDimSorted(gg, inData, FirstSeen(dim1Of(inData)),
               trySort(q, coloursOf(q), edgesOf(inData)))

\* Process two dimensional data
twoDim(gg, inData) == twoDimFrom(gg, inData, FirstSeen(dim2Of(inData)))

twoDimReturn(two) == [g |-> two.g, pc |-> "twoDim", raised |-> two.raised]

process(gg, inData) ==
  IF Len(inData[1]) = 2
  THEN [g |-> oneDim(gg, inData), pc |-> "oneDim", raised |-> FALSE]
  ELSE twoDimReturn(twoDim(gg, inData))

\* initData(): the chart state after the call, the return it took and whether
\* an exception left it
initData(gg) ==
  IF guardStops(gg) THEN [g |-> gg, pc |-> "guard", raised |-> FALSE]
  ELSE process(gg, inDataOf(gg))

----------------------------------------------------------------------------
(* The host: the hypercube rows and the properties it hands to the chart.  *)

MaxRows == 3        \* rows of a one-measure hypercube
MaxMeasRows == 2    \* rows of a hypercube with several measures
MaxOrderRows == 4   \* rows of a hypercube that exercises the label order
MaxPaintRows == 2   \* rows of a one-measure hypercube in a sequence of paints
MaxPaintMeasRows == 1   \* rows of a several-measure hypercube in a sequence of paints

Dim1Labels == {"A", "B"}
Dim2Labels == {"P", "Q", "R"}
Values == {-1, 0, 2}
OrderValues == {2}          \* the values of the rows with three dim2 labels
MeasureValues == {0, 2}     \* the values of a row of several measures
PaintDim2Labels == {"P"}    \* the labels and values in a sequence of passes
PaintValues == {2}
MeasureLists == {<<"M">>, <<"M", "N">>, <<"M", "M">>, <<"M", "N", "O">>}

\* the element number the host gives a dimension value
ElemNumber(label) ==
  CASE label = "A" -> 0 [] label = "B" -> 1
    [] label = "P" -> 5 [] label = "Q" -> 6 [] label = "R" -> 7

DimCell(label) == Cell(ElemNumber(label), NaN, label)

MeasCell(v) == Cell(0, Num(v), ToString(v))

\* rows of d dimensions and m measures
RowsOf(dim1, dim2, vals, d, m) ==
  IF d = 2
  THEN {<<DimCell(a), DimCell(b)>> \o [k \in 1..m |-> MeasCell(v[k])] :
          a \in dim1, b \in dim2, v \in [1..m -> vals]}
  ELSE IF d = 1
  THEN {<<DimCell(a)>> \o [k \in 1..m |-> MeasCell(v[k])] :
          a \in dim1, v \in [1..m -> vals]}
  ELSE {[k \in 1..m |-> MeasCell(v[k])] : v \in [1..m -> vals]}

Props(rows, d, names, norm, deltas) ==
  [rawData |-> rows, defDims |-> d, defMeas |-> Len(names), measures |-> names,
   normalized |-> norm, showDeltas |-> deltas]

\* the hypercubes the host can hand over, each given to Pass: two dimensions,
\* one dimension, measures only, one dimension with several measures
Hypercubes(dim2, vals, measVals, maxRows, maxMeasRows, Pass(_)) ==
  \E norm \in BOOLEAN, deltas \in BOOLEAN :
    \/ \E len \in 1..maxRows :
         \E rows \in [1..len -> RowsOf(Dim1Labels, dim2, vals, 2, 1)] :
           Pass(Props(rows, 2, <<"M">>, norm, deltas))
    \/ \E len \in 1..maxRows :
         \E rows \in [1..len -> RowsOf(Dim1Labels, dim2, vals, 1, 1)] :
           Pass(Props(rows, 1, <<"M">>, norm, deltas))
    \/ \E names \in MeasureLists, len \in 1..maxMeasRows :
         \E rows \in [1..len -> RowsOf(Dim1Labels, dim2, measVals, 0, Len(names))] :
           Pass(Props(rows, 0, names, norm, deltas))
    \/ \E names \in {m \in MeasureLists : Len(m) > 1}, len \in 1..maxMeasRows :
         \E rows \in [1..len -> RowsOf(Dim1Labels, dim2, measVals, 1, Len(names))] :
           Pass(Props(rows, 1, names, norm, deltas))

\* hypercubes the input-shape guard stops: no row at all, or a row whose width
\* is not defDims + defMeas
BrokenHypercubes(vals, Pass(_)) ==
  \E norm \in BOOLEAN, deltas \in BOOLEAN :
    \/ Pass(Props(<<>>, 1, <<"M">>, norm, deltas))
    \/ \E row \in RowsOf(Dim1Labels, Dim2Labels, vals, 1, 1) :
         Pass(Props(<<row>>, 2, <<"M">>, norm, deltas))

\* the chart state before the first pass
NewChart ==
  [rawData |-> <<>>, defDims |-> 0, defMeas |-> 0, measures |-> <<>>,
   normalized |-> FALSE, showDeltas |-> FALSE,
   data |-> <<>>, flatData |-> <<>>, allDim2 |-> <<>>, allCol2 |-> <<>>,
   deltas |-> <<>>, nDims |-> 0]

\* initProps(): the host's properties copied into the chart state
initProps(gg, in) ==
  [gg EXCEPT !.rawData = in.rawData, !.defDims = in.defDims,
             !.defMeas = in.defMeas, !.measures = in.measures,
             !.normalized = in.normalized, !.showDeltas = in.showDeltas]

\* the chart state and the return of a finished initData call
Return(res) ==
  /\ g' = res.g
  /\ pc' = res.pc
  /\ raised' = res.raised

\* the host calls g.initData() once the properties are set
InitDataCall ==
  /\ pc = "props"
  /\ Return(initData(g))

----------------------------------------------------------------------------
(* SpecReshape: one initData pass over the hypercubes the host can hand    *)
(* to a new chart.                                                         *)

PropsSet(in) == g = initProps(NewChart, in)

InitReshape ==
  /\ \/ Hypercubes({"P", "Q"}, Values, MeasureValues, MaxRows, MaxMeasRows, PropsSet)
     \/ Hypercubes(Dim2Labels, OrderValues, OrderValues, MaxOrderRows, MaxMeasRows,
                   PropsSet)
     \/ BrokenHypercubes(OrderValues, PropsSet)
  /\ pc = "props"
  /\ raised = FALSE

NextReshape == InitDataCall

SpecReshape == InitReshape /\ [][NextReshape]_vars

----------------------------------------------------------------------------
(* Spec: the chart over a sequence of paints; every paint copies the       *)
(* host's properties into g (initProps) and then runs initData.            *)

Init ==
  /\ g = NewChart
  /\ pc = "none"
  /\ raised = FALSE

SetProps(in) ==
  /\ g' = initProps(g, in)
  /\ pc' = "props"
  /\ UNCHANGED raised

\* the host calls initProps() with the layout of the next paint
InitProps ==
  /\ pc # "props"
  /\ \/ Hypercubes(PaintDim2Labels, PaintValues, PaintValues, MaxPaintRows, MaxPaintMeasRows,
                   SetProps)
     \/ BrokenHypercubes(PaintValues, SetProps)

Next == InitProps \/ InitDataCall

Spec == Init /\ [][Next]_vars

----------------------------------------------------------------------------
(* Properties of one initData pass.                                        *)

Range(arr) == {arr[i] : i \in 1..Len(arr)}

\* the qNum of the Segments 1..k of a Segment list
qNumsUpTo(values, k) == [i \in 1..k |-> values[i].qNum]

\* the rows of the pass that carry the labels dim1 and dim2
RowsFor(dim1, dim2) ==
  {i \in 1..Len(inDataOf(g)) :
     inDataOf(g)[i][1].qText = dim1 /\ inDataOf(g)[i][2].qText = dim2}

\* C1: in two-dimension mode every Category's Segment list holds exactly one
\* entry per label of g.allDim2, in that order, and the entry of a label that
\* has no row in the Category is a placeholder with qNum 0 and qText "-".
C1_Rectangular ==
  pc = "twoDim" =>
    \A c \in 1..Len(g.data) :
      /\ Len(g.data[c].values) = Len(g.allDim2)
      /\ \A i \in 1..Len(g.allDim2) :
           /\ g.data[c].values[i].dim2 = g.allDim2[i]
           /\ RowsFor(g.data[c].dim1, g.allDim2[i]) = {} =>
                /\ g.data[c].values[i].qNum = Num(0)
                /\ g.data[c].values[i].qText = "-"

\* C2: with normalization off, every Segment's offset is the sum of the qNum of
\* the Segments before it in its Category and the Category's offset is the sum
\* of the qNum of all its Segments (in single-dimension mode the one Segment of
\* a Category has offset 0 and the Category's offset is its qNum).
C2_Stacking ==
  /\ (pc = "twoDim" /\ ~g.normalized) =>
       \A c \in 1..Len(g.data) :
         /\ g.data[c].offset =
              NumSum(qNumsUpTo(g.data[c].values, Len(g.data[c].values)))
         /\ \A k \in 1..Len(g.data[c].values) :
              g.data[c].values[k].offset =
                NumSum(qNumsUpTo(g.data[c].values, k - 1))
  /\ pc = "oneDim" =>
       /\ Len(g.flatData) = Len(g.data)
       /\ \A c \in 1..Len(g.data) :
            /\ g.flatData[c].offset = Num(0)
            /\ g.data[c].offset = g.flatData[c].qNum

\* a Category of three Segments stacked at distinct offsets
C2_Witness ==
  /\ pc = "twoDim"
  /\ ~g.normalized
  /\ \E c \in 1..Len(g.data) :
       /\ Len(g.data[c].values) = 3
       /\ g.data[c].values[2].offset # Num(0)
       /\ g.data[c].values[3].offset # g.data[c].values[2].offset

\* a <= b for finite a and b
NumLeq(a, b) == a.n * b.d <= b.n * a.d

\* x lies in [0, 1]
InUnit(x) == IsFinite(x) /\ NumLeq(Num(0), x) /\ NumLeq(x, Num(1))

\* the Segments of Category c are fractions of a whole
UnitStack(c) ==
  /\ NumSum(qNumsUpTo(g.data[c].values, Len(g.data[c].values))) = Num(1)
  /\ \A k \in 1..Len(g.data[c].values) :
       /\ InUnit(g.data[c].values[k].qNum)
       /\ InUnit(g.data[c].values[k].offset)

PctFormatted(c) ==
  \A k \in 1..Len(g.data[c].values) :
    g.data[c].values[k].qTextPct = Fmt1Pct(g.data[c].values[k].qNum)

NonNegativeInput ==
  \A i \in 1..Len(inDataOf(g)) : inDataOf(g)[i][3].qNum.n >= 0

ObservedEdges ==
  {<<inDataOf(g)[k][2].qText, inDataOf(g)[k + 1][2].qText>> :
     k \in {k \in 1..(Len(inDataOf(g)) - 1) :
              inDataOf(g)[k][1].qText = inDataOf(g)[k + 1][1].qText}}

\* the pairs joined by a path of at most n + 1 edges of E
RECURSIVE Paths(_, _, _)
Paths(R, E, n) ==
  IF n = 0 THEN R
  ELSE Paths(R \cup {<<z[1][1], z[2][2]>> : z \in {y \in R \X E : y[1][2] = y[2][1]}},
             E, n - 1)

Acyclic(E) == \A e \in Paths(E, E, Cardinality(E)) : e[1] # e[2]

Dim2Seen == {inDataOf(g)[i][2].qText : i \in 1..Len(inDataOf(g))}

\* C4: in two-dimension mode, when the observed adjacency edges contain no
\* cycle, g.allDim2 is a permutation of the distinct secondary labels in which
\* a precedes b for every observed edge a -> b.
C4_TopologicalOrder ==
  (pc = "twoDim" /\ Acyclic(ObservedEdges)) =>
    /\ Range(g.allDim2) = Dim2Seen
    /\ Len(g.allDim2) = Cardinality(Dim2Seen)
    /\ \A e \in ObservedEdges :
         IndexOf(g.allDim2, e[1]) < IndexOf(g.allDim2, e[2])

\* the sort moved a label: the edges are acyclic and g.allDim2 is not the
\* first-seen order
C4_Witness ==
  /\ pc = "twoDim"
  /\ ObservedEdges # {}
  /\ Acyclic(ObservedEdges)
  /\ g.allDim2 # FirstSeen(dim2Of(inDataOf(g)))

\* C5: when the observed adjacency edges contain a cycle, initData does not
\* raise to its caller, completes the reshaping (one Category per primary
\* label, in first-seen order, and their Segments) and g.allDim2 is the
\* first-seen order of the secondary labels.
C5_CycleFallback ==
  (pc = "twoDim" /\ ~Acyclic(ObservedEdges)) =>
    /\ ~raised
    /\ g.allDim2 = FirstSeen(dim2Of(inDataOf(g)))
    /\ Len(g.data) = Len(FirstSeen(dim1Of(inDataOf(g))))
    /\ \A c \in 1..Len(g.data) :
         g.data[c].dim1 = FirstSeen(dim1Of(inDataOf(g)))[c]
    /\ g.flatData # <<>>

\* a cycle of two labels (P -> Q and Q -> P) that initData ran through
C5_Witness ==
  /\ pc = "twoDim"
  /\ ~raised
  /\ <<"P", "Q">> \in ObservedEdges
  /\ <<"Q", "P">> \in ObservedEdges
  /\ g.allDim2 = <<"P", "Q">>
  /\ g.data # <<>>

\* C6: when rawData has no first row, or defDims + defMeas differs from the
\* width of the first row, the initData call returns without raising and every
\* output (data, flatData, allDim2, allCol2, deltas, nDims, normalized) is
\* after the call what it was before it.
C6_GuardKeepsOutputs ==
  [][(/\ pc = "props"
      /\ \/ g.rawData = <<>>
         \/ g.defDims + g.defMeas # Len(g.rawData[1]))
     => /\ ~raised'
        /\ g'.data = g.data
        /\ g'.flatData = g.flatData
        /\ g'.allDim2 = g.allDim2
        /\ g'.allCol2 = g.allCol2
        /\ g'.deltas = g.deltas
        /\ g'.nDims = g.nDims
        /\ g'.normalized = g.normalized]_vars

\* a stopped pass that follows a two-dimension pass, whose outputs are there
C6_Witness ==
  /\ pc = "guard"
  /\ g.nDims = 2
  /\ g.data # <<>>
  /\ g.allDim2 # <<>>
  /\ \/ g.rawData = <<>>
     \/ g.defDims + g.defMeas # Len(g.rawData[1])

\* C7: the initData call on one declared dimension and one measure yields one
\* Category per row, each with one Segment (the flat Segment of the same
\* position) whose offset is 0 and whose qNum is the raw measure value, and
\* g.normalized is false after the call whether or not it was requested.
C7_OneDimOneMeasure ==
  [][(/\ pc = "props"
      /\ g.defDims = 1 /\ g.defMeas = 1
      /\ g.rawData # <<>>
      /\ \A i \in 1..Len(g.rawData) : Len(g.rawData[i]) = 2)
     => /\ pc' = "oneDim"
        /\ g'.nDims = 1
        /\ ~g'.normalized
        /\ Len(g'.data) = Len(g.rawData)
        /\ Len(g'.flatData) = Len(g.rawData)
        /\ \A i \in 1..Len(g.rawData) :
             /\ g'.data[i].dim1 = g.rawData[i][1].qText
             /\ g'.flatData[i].dim1 = g.rawData[i][1].qText
             /\ g'.flatData[i].offset = Num(0)
             /\ g'.flatData[i].qNum = g.rawData[i][2].qNum
             /\ g'.flatData[i].qTextPct = ""]_vars

\* two rows A and B of one dimension and one measure, reshaped
C7_Witness ==
  /\ pc = "oneDim"
  /\ g.defDims = 1 /\ g.defMeas = 1
  /\ Len(g.data) = 2
  /\ g.data[1].dim1 = "A" /\ g.data[2].dim1 = "B"
  /\ g.flatData[1].qNum = Num(2) /\ g.flatData[2].qNum = Num(-1)
  /\ g.flatData[2].offset = Num(0)

Passed == pc \in {"oneDim", "twoDim"}

\* C8: with zero declared dimensions and N >= 1 measures in one raw row,
\* initData yields single-dimension mode with N Categories in measure order,
\* the j-th labelled with the j-th measure name and holding one Segment with
\* the j-th measure's value and selection key -1.
C8_MeasuresOnly ==
  (Passed /\ g.defDims = 0 /\ Len(g.rawData) = 1) =>
    /\ pc = "oneDim"
    /\ g.nDims = 1
    /\ Len(g.data) = Len(g.measures)
    /\ Len(g.flatData) = Len(g.measures)
    /\ \A j \in 1..Len(g.measures) :
         /\ g.data[j].dim1 = g.measures[j]
         /\ g.flatData[j].dim1 = g.measures[j]
         /\ g.flatData[j].qNum = g.rawData[1][j].qNum
         /\ g.flatData[j].qElemNumber = ElemScalar(-1)

\* three measures M, N, O of one row become three Categories
C8_Witness ==
  /\ pc = "oneDim"
  /\ g.defDims = 0
  /\ Len(g.rawData) = 1
  /\ Len(g.data) = 3
  /\ g.data[2].dim1 = "N" /\ g.data[3].dim1 = "O"
  /\ g.flatData[1].qNum # g.flatData[2].qNum

\* the first raw row whose dimension label is the one given
FirstRowOf(label) ==
  g.rawData[CHOOSE i \in 1..Len(g.rawData) :
              /\ g.rawData[i][1].qText = label
              /\ \A k \in 1..(i - 1) : g.rawData[k][1].qText # label]

MeasuresOf(row) == [j \in 1..g.defMeas |-> row[j + 1].qNum]

DistinctNames == Cardinality(Range(g.measures)) = Len(g.measures)

\* one Category per distinct dimension value and, in each, one Segment per
\* measure in measure order; scaled tells whether a normalized pass is
\* expected to hold the measure's value divided by the Category total
MeasureSegments(scaled) ==
  /\ pc = "twoDim"
  /\ g.nDims = 2
  /\ Len(g.data) = Len(FirstSeen(dim1Of(g.rawData)))
  /\ \A c \in 1..Len(g.data) :
       /\ g.data[c].dim1 = FirstSeen(dim1Of(g.rawData))[c]
       /\ Len(g.data[c].values) = g.defMeas
       /\ \A j \in 1..Len(g.data[c].values) :
            /\ g.data[c].values[j].dim2 = g.measures[j]
            /\ g.data[c].values[j].qElemNumber =
                 ElemScalar(FirstRowOf(g.data[c].dim1)[1].qElemNumber)
            /\ g.data[c].values[j].qNum =
                 IF scaled /\ g.normalized
                 THEN NumDiv(FirstRowOf(g.data[c].dim1)[j + 1].qNum,
                             NumSum(MeasuresOf(FirstRowOf(g.data[c].dim1))))
                 ELSE FirstRowOf(g.data[c].dim1)[j + 1].qNum

SingleMeasurePath ==
  (Passed /\ g.defDims = 1 /\ g.defMeas = 1) => (pc = "oneDim" /\ g.nDims = 1)

\* C9 as claimed: with one declared dimension and N > 1 measures of distinct
\* names, initData yields two-dimension mode with one Category per distinct
\* dimension value, each holding one Segment per measure in measure order with
\* dim2 the measure name, qNum the measure's value in the row and qElemNumber
\* the scalar element id of the dimension value; with N = 1 the
\* single-dimension path is taken.
C9_MeasuresAsDim2 ==
  /\ (Passed /\ g.defDims = 1 /\ g.defMeas > 1 /\ DistinctNames)
       => MeasureSegments(FALSE)
  /\ SingleMeasurePath

\* C9 as amended: the same, with qNum the measure's value in the row when
\* normalization is off and that value divided by the sum of the row's
\* measures when normalization is on.
C9_MeasuresAsDim2Scaled ==
  /\ (Passed /\ g.defDims = 1 /\ g.defMeas > 1 /\ DistinctNames)
       => MeasureSegments(TRUE)
  /\ SingleMeasurePath

\* two rows A and B of measures M and N, normalized: A's measures are halves
C9_Witness ==
  /\ pc = "twoDim"
  /\ g.defDims = 1
  /\ g.measures = <<"M", "N">>
  /\ g.normalized
  /\ Len(g.data) = 2
  /\ g.data[1].dim1 = "A" /\ g.data[2].dim1 = "B"
  /\ g.data[1].values[2].dim2 = "N"
  /\ g.data[1].values[2].qNum = Rat(1, 2)
  /\ FirstRowOf("A")[3].qNum = Num(2)

\* C10 as claimed: after every pass the guard does not stop, g.deltas holds
\* records only if the pass ran in two-dimension mode with showDeltas on, and
\* then the records computed from that pass's data, whatever passes came
\* before.
C10_DeltasOfThisPass ==
  Passed =>
    g.deltas = IF pc = "twoDim" /\ g.showDeltas
               THEN allDeltas(TRUE, g.data)
               ELSE <<>>

\* delta record d links Segment pk of Category i - 1 to Segment ck of Category i
Links(d, i, pk, ck) ==
  /\ d.dim1p = g.data[i - 1].dim1
  /\ d.dim1c = g.data[i].dim1
  /\ d.dim2 = pk.dim2
  /\ d.dim2 = ck.dim2
  /\ d.delta = NumSub(ck.qNum, pk.qNum)
  /\ d.points = <<pk.offset, ck.offset, pk.qNum, ck.qNum>>

\* C11 as claimed: every delta record of a two-dimension pass links two
\* Segments of the same dim2 label, one of Category i - 1 and one of Category
\* i, with delta = current qNum - previous qNum and points = [previous offset,
\* current offset, previous qNum, current qNum], also when a Category has no
\* row for some secondary label.
C11_DeltasSameLabel ==
  (pc = "twoDim" /\ ~raised) =>
    \A x \in 1..Len(g.deltas) :
      \E i \in 2..Len(g.data) :
        \E a \in 1..Len(g.data[i - 1].values), b \in 1..Len(g.data[i].values) :
          Links(g.deltas[x], i, g.data[i - 1].values[a], g.data[i].values[b])

\* the secondary labels of the rows of primary label dim1
Dim2Of(dim1) ==
  {inDataOf(g)[i][2].qText :
     i \in {i \in 1..Len(inDataOf(g)) : inDataOf(g)[i][1].qText = dim1}}

\* C12: after a two-dimension pass the Categories are in first-seen order of
\* their primary label, the Segments of every Category follow the order of
\* g.allDim2 whatever the arrival order of the rows, every (primary,
\* secondary) pair of the input has its Segment, and g.flatData is the
\* concatenation of the Categories' Segment lists in Category order.
C12_Ordering ==
  (pc = "twoDim" /\ ~raised) =>
    /\ [c \in 1..Len(g.data) |-> g.data[c].dim1] = FirstSeen(dim1Of(inDataOf(g)))
    /\ \A c \in 1..Len(g.data) :
         /\ \A k \in 1..Len(g.data[c].values) :
              /\ IndexOf(g.allDim2, g.data[c].values[k].dim2) > 0
              /\ g.data[c].values[k].dim1 = g.data[c].dim1
              /\ k > 1 => IndexOf(g.allDim2, g.data[c].values[k - 1].dim2)
                            < IndexOf(g.allDim2, g.data[c].values[k].dim2)
         /\ {g.data[c].values[k].dim2 : k \in 1..Len(g.data[c].values)}
              = Dim2Of(g.data[c].dim1)
    /\ g.flatData = Concat([c \in 1..Len(g.data) |-> g.data[c].values])

\* Category B received P then Q and holds Q then P, the order of g.allDim2
C12_Witness ==
  /\ pc = "twoDim"
  /\ ~raised
  /\ Len(inDataOf(g)) = 4
  /\ inDataOf(g)[3][1].qText = "B" /\ inDataOf(g)[3][2].qText = "P"
  /\ inDataOf(g)[4][1].qText = "B" /\ inDataOf(g)[4][2].qText = "Q"
  /\ g.allDim2 = <<"Q", "P">>
  /\ Len(g.data) = 2
  /\ g.data[2].dim1 = "B"
  /\ Len(g.data[2].values) = 2
  /\ g.data[2].values[1].dim2 = "Q"
  /\ Len(g.flatData) = 4

----------------------------------------------------------------------------
(* initChart: the margins, the inner plot and the legend block.            *)

\* "WMN".indexOf(c), counted from 1
WMN(c) == IF c = "W" THEN 1 ELSE IF c = "M" THEN 2 ELSE IF c = "N" THEN 3 ELSE 0

xLabelTitle(gg) == IF gg.orientation = "V" THEN gg.labelTitleD ELSE gg.labelTitleM

yLabelTitle(gg) == IF gg.orientation = "V" THEN gg.labelTitleM ELSE gg.labelTitleD

xAxisHeight(gg) ==
  IF xLabelTitle(gg) \in {"B", "L"}
  THEN <<70, 40, 25>>[WMN(IF gg.orientation = "V" THEN gg.axisMarginD
                                                  ELSE gg.axisMarginM)]
  ELSE 0

yAxisWidth(gg) ==
  IF yLabelTitle(gg) \in {"B", "L"}
  THEN <<90, 50, 30>>[WMN(IF gg.orientation = "V" THEN gg.axisMarginM
                                                  ELSE gg.axisMarginD)]
  ELSE 0

\* xTitleHeight, yTitleWidth
titleSize(labelTitle) == IF labelTitle \in {"B", "T"} THEN 20 ELSE 0

xAxisPad == 20

yAxisPad == 20

\* margin, as first computed
marginOf(gg) ==
  [top |-> 10,
   right |-> xAxisPad,
   bottom |-> xAxisHeight(gg) + titleSize(xLabelTitle(gg)) + xAxisPad,
   left |-> yAxisWidth(gg) + titleSize(yLabelTitle(gg)) + yAxisPad]

\* g.lgn, as first assigned
lgnUnused ==
  [minDim |-> <<200, 100>>, use |-> "", pad |-> 0, sep |-> 5, box |-> <<12, 12>>,
   itmHeight |-> 20, txtOff |-> 12 + 0 + 5]

\* the margins, the inner plot and the legend initChart ends up with
Plot(m, innerWidth, innerHeight, lgn) ==
  [margin |-> m, innerWidth |-> innerWidth, innerHeight |-> innerHeight,
   lgn |-> lgn]

NumMargin(m) ==
  [top |-> Num(m.top), right |-> Num(m.right), bottom |-> Num(m.bottom),
   left |-> Num(m.left)]

\* the legend at the left or right, width being g.lgn.width
legendSideOf(gg, m, iw, ih, width) ==
  Plot(IF gg.legendPosition = "L"
       THEN [NumMargin(m) EXCEPT !.left = NumAdd(@, NumAdd(width, Num(yAxisPad)))]
       ELSE NumMargin(m),
       NumSub(Num(iw), NumAdd(width, Num(yAxisPad))),
       Num(ih),
       [use |-> gg.legendPosition,
        width |-> width,
        height |-> Num(ih + xAxisHeight(gg) + titleSize(xLabelTitle(gg))),
        y |-> Num(m.top),
        txtWidth |-> NumSub(width, Num(0 + 5 + 12)),
        x |-> IF gg.legendPosition = "L"
              THEN Num(yAxisPad)
              ELSE NumAdd(Num(m.left),
                          NumAdd(NumSub(Num(iw), NumAdd(width, Num(yAxisPad))),
                                 Num(yAxisPad)))]
         @@ lgnUnused)

\* the left or right legend with a usable block at inner width 200
legendSideAt200(gg, m, iw, ih) ==
  IF iw < 200
  THEN Plot(NumMargin(m), Num(iw), Num(ih), lgnUnused)
  ELSE legendSideOf(gg, m, iw, ih,
                    NumDiv(Num(iw), Num(<<4, 6, 10>>[WMN(gg.legendSize)])))

\* if (g.lgn.use == "L" || g.lgn.use == "R")
legendSide(gg, m, iw, ih) ==
  IF iw <= lgnUnused.minDim[1]
  THEN Plot(NumMargin(m), Num(iw), Num(ih), lgnUnused)
  ELSE legendSideOf(gg, m, iw, ih,
                    NumDiv(Num(iw), Num(<<4, 6, 10>>[WMN(gg.legendSize)])))

\* the legend at the top or bottom, height being g.lgn.height
legendBandOf(gg, m, iw, ih, height) ==
  Plot(IF gg.legendPosition = "T"
       THEN [NumMargin(m) EXCEPT !.top = Num(m.top + height)]
       ELSE NumMargin(m),
       Num(iw),
       IF gg.legendPosition = "T" THEN Num(ih - height)
                                  ELSE Num(ih - height - 10),
       [use |-> gg.legendPosition,
        width |-> Num(iw + yAxisWidth(gg) + titleSize(yLabelTitle(gg))),
        height |-> Num(height),
        x |-> Num(yAxisPad),
        txtWidth |-> Num(<<100, 75, 50>>[WMN(gg.legendSpacing)]),
        y |-> IF gg.legendPosition = "T" THEN Num(m.top)
                                         ELSE Num(m.bottom + ih - height)]
         @@ lgnUnused)

\* else if (g.lgn.use == "T" || g.lgn.use == "B")
legendBand(gg, m, iw, ih) ==
  IF ih <= lgnUnused.minDim[2]
  THEN Plot(NumMargin(m), Num(iw), Num(ih), lgnUnused)
  ELSE legendBandOf(gg, m, iw, ih, lgnUnused.itmHeight * (3 - (WMN(gg.legendSize) - 1)))

\* adjust for legend if any
legendOf(gg, m, iw, ih) ==
  IF ~gg.showLegend \/ gg.legendPosition = ""
  THEN Plot(NumMargin(m), Num(iw), Num(ih), lgnUnused)
  ELSE IF gg.legendPosition \in {"L", "R"} THEN legendSide(gg, m, iw, ih)
  ELSE IF gg.legendPosition \in {"T", "B"} THEN legendBand(gg, m, iw, ih)
  ELSE Plot(NumMargin(m), Num(iw), Num(ih),
            [lgnUnused EXCEPT !.use = gg.legendPosition])

plotFrom(gg, m) ==
  legendOf(gg, m, gg.width - m.left - m.right, gg.height - m.top - m.bottom)

plotOf(gg) == plotFrom(gg, marginOf(gg))

\* d3.scale.ordinal: the bands of rangeRoundBands, step being the band step
\* and first the position of the first band
bandsAt(domain, reverse, padding, step, first) ==
  [domain |-> domain,
   rangeBand |-> NumRound(NumMul(step, NumSub(Num(1), padding))),
   range |-> [k \in 1..Len(domain) |->
               NumAdd(first, NumMul(step, Num(IF reverse THEN Len(domain) - k
                                                         ELSE k - 1)))]]

bandsOfStep(domain, reverse, start, stop, padding, step) ==
  bandsAt(domain, reverse, padding, step,
          NumAdd(start,
                 NumRound(NumDiv(NumSub(NumSub(stop, start),
                                        NumMul(NumSub(Num(Len(domain)), padding), step)),
                                 Num(2)))))

bandsBetween(domain, reverse, start, stop, padding, outerPadding) ==
  bandsOfStep(domain, reverse, start, stop, padding,
              NumFloor(NumDiv(NumSub(stop, start),
                              NumAdd(NumSub(Num(Len(domain)), padding),
                                     NumMul(Num(2), outerPadding)))))

\* d3.scale.ordinal().domain(labels).rangeRoundBands([x0, x1], padding,
\* outerPadding); the domain keeps the first of equal labels
rangeRoundBands(labels, x0, x1, padding, outerPadding) ==
  IF NumLt(x1, x0)
  THEN bandsBetween(FirstSeen(labels), TRUE, x1, x0, padding, outerPadding)
  ELSE bandsBetween(FirstSeen(labels), FALSE, x0, x1, padding, outerPadding)

\* g.dScale(label): undefined, NaN in arithmetic, for a label out of the domain
dScaleAt(scale, label) ==
  IF IndexOf(scale.domain, label) = 0 THEN NaN
  ELSE scale.range[IndexOf(scale.domain, label)]

Reverse(arr) == [i \in 1..Len(arr) |-> arr[Len(arr) + 1 - i]]

\* g.data.map(d => d.dim1)
dim1Labels(gg) == [c \in 1..Len(gg.data) |-> gg.data[c].dim1]

\* dim1 = g.data.map(d => d.dim1); if (g.orientation == "H") dim1.reverse()
dim1Domain(gg) ==
  IF gg.orientation = "H" THEN Reverse(dim1Labels(gg)) ELSE dim1Labels(gg)

dScaleOf(gg, plot) ==
  IF gg.orientation = "V"
  THEN rangeRoundBands(dim1Domain(gg), Num(0), plot.innerWidth, gg.barGap, gg.outerGap)
  ELSE rangeRoundBands(dim1Domain(gg), plot.innerHeight, Num(0), gg.barGap, gg.outerGap)

\* (g.normalized ? 1 : x) * g.gridHeight
gridTop(gg, x) == NumMul(IF gg.normalized THEN Num(1) ELSE x, gg.gridHeight)

\* the largest Segment offset that exceeds the Category offset and 1
RECURSIVE valuesOffset(_, _, _, _)
valuesOffset(d, values, k, acc) ==
  IF k > Len(values) THEN acc
  ELSE valuesOffset(d, values, k + 1,
                    IF NumLt(d.offset, values[k].offset) /\ ~NumLt(values[k].offset, acc)
                    THEN values[k].offset ELSE acc)

topOver(gg, d, over) ==
  IF NumLt(d.offset, over) THEN gridTop(gg, over) ELSE gridTop(gg, d.offset)

\* what the accessor of d3.max gives for a Category: a number v, or a
\* TypeError thrown
Top(v) == [threw |-> FALSE, v |-> v]

TypeError == [threw |-> TRUE, v |-> NaN]

\* the accessor of d3.max(g.data, ...): the top of Category d, or the
\* TypeError of reading qNum of a Segment that is not there
categoryTop(gg, d) ==
  IF NumLt(d.offset, Num(0))
  THEN IF "values" \notin DOMAIN d THEN Top(Num(0))
       ELSE IF Len(d.values) < 2 THEN TypeError
       ELSE IF NumLt(d.values[2].qNum, d.values[1].qNum)
       THEN Top(gridTop(gg, d.values[1].qNum))
       ELSE Top(gridTop(gg, d.values[2].qNum))
  ELSE Top(topOver(gg, d, IF "values" \in DOMAIN d
                          THEN valuesOffset(d, d.values, 1, Num(1))
                          ELSE Num(1)))

\* d3.max: the greatest of the tops, NaN passed over; NaN stands for the
\* undefined of an array without a number
RECURSIVE d3max(_, _, _)
d3max(tops, k, a) ==
  IF k > Len(tops) THEN Top(a)
  ELSE IF tops[k].threw THEN TypeError
  ELSE IF IsNaN(tops[k].v) THEN d3max(tops, k + 1, a)
  ELSE IF IsNaN(a) THEN d3max(tops, k + 1, tops[k].v)
  ELSE d3max(tops, k + 1, IF NumLt(a, tops[k].v) THEN tops[k].v ELSE a)

maxOf(gg) == d3max([c \in 1..Len(gg.data) |-> categoryTop(gg, gg.data[c])], 1, NaN)

\* g.max > 0 ? g.max : 1
domainTop(max) == IF NumLt(Num(0), max) THEN max ELSE Num(1)

\* Math.ceil(a)
NumCeil(a) == NumSub(Num(0), NumFloor(NumSub(Num(0), a)))

\* Math.pow(10, Math.floor(Math.log(q) / Math.LN10)) for q > 0, searched from
\* the power of ten p
RECURSIVE pow10Under(_, _)
pow10Under(q, p) ==
  IF NumLt(q, p) THEN pow10Under(q, NumDiv(p, Num(10)))
  ELSE IF ~NumLt(q, NumMul(p, Num(10))) THEN pow10Under(q, NumMul(p, Num(10)))
  ELSE p

\* d3_scale_linearTickRange: the step widened by the error m / span * step
stepUp(step, err) ==
  IF ~NumLt(Rat(15, 100), err) THEN NumMul(step, Num(10))
  ELSE IF ~NumLt(Rat(35, 100), err) THEN NumMul(step, Num(5))
  ELSE IF ~NumLt(Rat(75, 100), err) THEN NumMul(step, Num(2))
  ELSE step

stepFrom(span, step) == stepUp(step, NumMul(NumDiv(Num(10), span), step))

\* the tick step of ten ticks over a positive finite span
tickStep(span) == stepFrom(span, pow10Under(NumDiv(span, Num(10)), Num(1)))

\* d3_scale_nice with d3_scale_niceStep(step)
niceBy(d, step) ==
  <<NumMul(NumFloor(NumDiv(d[1], step)), step),
    NumMul(NumCeil(NumDiv(d[2], step)), step)>>

niceOnce(d) ==
  IF ~IsFinite(NumSub(d[2], d[1])) THEN <<NaN, NaN>>
  ELSE IF ~NumLt(Num(0), NumSub(d[2], d[1])) THEN d
  ELSE niceBy(d, tickStep(NumSub(d[2], d[1])))

\* scale.nice() of d3.scale.linear: the domain widened to round ticks, twice
nice(d) == niceOnce(niceOnce(d))

\* d3.scale.linear().domain(domain).range(range)
linear(domain, range) == [domain |-> domain, range |-> range]

\* g.mScale(x): range[0] * (1 - t) + range[1] * t at t = (x - d0) / (d1 - d0)
interpolate(range, t) ==
  NumAdd(NumMul(range[1], NumSub(Num(1), t)), NumMul(range[2], t))

mScaleAt(scale, x) ==
  interpolate(scale.range,
              NumDiv(NumSub(x, scale.domain[1]),
                     NumSub(scale.domain[2], scale.domain[1])))

mRange(gg, plot) ==
  IF gg.orientation = "V" THEN <<plot.innerHeight, Num(0)>>
                          ELSE <<Num(0), plot.innerWidth>>

mScaleOf(gg, plot, max) == linear(nice(<<Num(0), domainTop(max)>>), mRange(gg, plot))

\* the fields initChart assigns before the TypeError of g.max, if any
chartUntilMax(gg, plot) ==
  [lgn |-> plot.lgn, xAxisHeight |-> xAxisHeight(gg), yAxisWidth |-> yAxisWidth(gg),
   margin |-> plot.margin, innerWidth |-> plot.innerWidth,
   innerHeight |-> plot.innerHeight, dScale |-> dScaleOf(gg, plot)] @@ gg

chartFrom(gg, plot, max) ==
  IF max.threw THEN chartUntilMax(gg, plot)
  ELSE [max |-> max.v, mScale |-> mScaleOf(gg, plot, max.v)] @@ chartUntilMax(gg, plot)

\* the fields initChart assigns, over those it leaves alone
chartWith(gg, plot) == chartFrom(gg, plot, maxOf(gg))

initChart(gg) == chartWith(gg, plotOf(gg))

\* initChart raises the TypeError of g.max
initChartRaises(gg) == maxOf(gg).threw

----------------------------------------------------------------------------
(* createBars and updateBars: the attributes of the bars, the totals and   *)
(* the timing of the transitions.                                          *)

\* the x, y, width and height attributes of a bar
Rect(x, y, width, height) == [x |-> x, y |-> y, width |-> width, height |-> height]

\* g.bars.enter().append("rect"): a bar of no length at the base line
enterBar(gg, d) ==
  IF gg.orientation = "V"
  THEN Rect(dScaleAt(gg.dScale, d.dim1), mScaleAt(gg.mScale, Num(0)),
            gg.dScale.rangeBand, Num(0))
  ELSE Rect(mScaleAt(gg.mScale, Num(0)), dScaleAt(gg.dScale, d.dim1),
            Num(0), gg.dScale.rangeBand)

\* Number.isFinite(x) ? x : 0
finiteOr0(x) == IF IsFinite(x) THEN x ELSE Num(0)

\* the ellipsis glyph U+2026, one character
Ellipsis == "~"

\* g.tref.node().getComputedTextLength(): every glyph of the scratch text is
\* half the font size wide
getComputedTextLength(gg, text) == NumMul(Num(Len(text)), Rat(gg.textSize, 2))

\* g.tref.node().getBBox(): an empty text has an empty box
getBBox(gg, text) ==
  [width |-> getComputedTextLength(gg, text),
   height |-> IF Len(text) = 0 THEN Num(0) ELSE Num(gg.textSize)]

\* the label of a Segment or of a total: nothing for a qNum of 0, else the
\* measure or the dimension, or the percentage of a normalized Segment
getBarLabelText(d, gg, total) ==
  IF d.qNum = Num(0) THEN ""
  ELSE IF total THEN (IF gg.showTot = "D" THEN d.dim1 ELSE d.qText)
  ELSE IF gg.showDim = "D" THEN d.dim1
  ELSE IF gg.showDim = "P" /\ gg.normalized THEN d.qTextPct
  ELSE d.qText

\* txt.slice(0, -1)
sliceLast(txt) == SubSeq(txt, 1, IF Len(txt) > 0 THEN Len(txt) - 1 ELSE 0)

\* txt.slice(0, -k): nothing is left when -k is 0 or NaN
sliceOff(txt, k) ==
  IF IsNaN(k) \/ k.n = 0 THEN ""
  ELSE IF ~IsFinite(k) THEN (IF k.n > 0 THEN "" ELSE txt)
  ELSE IF k.n > 0 THEN SubSeq(txt, 1, IF Len(txt) > k.n THEN Len(txt) - k.n ELSE 0)
  ELSE SubSeq(txt, 1, IF Len(txt) > -k.n THEN -k.n ELSE Len(txt))

\* the alignment, overridden for a total
vAlignOf(gg, total) == IF total /\ gg.orientation = "V" THEN "B" ELSE gg.vAlign

hAlignOf(gg, total) == IF total /\ gg.orientation # "V" THEN "L" ELSE gg.hAlign

origX(gg, d) ==
  IF gg.orientation = "V" THEN dScaleAt(gg.dScale, d.dim1)
                          ELSE mScaleAt(gg.mScale, d.offset)

bHeight(gg, d) ==
  IF gg.orientation = "V"
  THEN NumSub(mScaleAt(gg.mScale, Num(0)), mScaleAt(gg.mScale, d.qNum))
  ELSE gg.dScale.rangeBand

textX(gg, d) ==
  IF gg.orientation = "V" THEN gg.dScale.rangeBand ELSE mScaleAt(gg.mScale, d.qNum)

\* the top of a vertical bar: g.mScale(d.offset) - (g.mScale(0) - g.mScale(d.qNum))
barTop(gg, d) ==
  NumSub(mScaleAt(gg.mScale, d.offset),
         NumSub(mScaleAt(gg.mScale, Num(0)), mScaleAt(gg.mScale, d.qNum)))

textYCentre(gg, d, bb) ==
  IF gg.orientation = "V"
  THEN NumAdd(barTop(gg, d), NumDiv(NumAdd(bHeight(gg, d), bb.height), Num(2)))
  ELSE NumAdd(dScaleAt(gg.dScale, d.dim1),
              NumDiv(NumAdd(gg.dScale.rangeBand, bb.height), Num(2)))

textYTop(gg, d, bb) ==
  IF gg.orientation = "V"
  THEN NumAdd(barTop(gg, d), NumAdd(bb.height, gg.innerBarPadV))
  ELSE NumAdd(dScaleAt(gg.dScale, d.dim1), NumAdd(gg.innerBarPadV, bb.height))

textYBottom(gg, d) ==
  IF gg.orientation = "V"
  THEN NumSub(mScaleAt(gg.mScale, d.offset), gg.innerBarPadV)
  ELSE NumSub(NumAdd(dScaleAt(gg.dScale, d.dim1), gg.dScale.rangeBand),
              gg.innerBarPadV)

textY(gg, d, vAlign, bb) ==
  IF vAlign = "C" THEN textYCentre(gg, d, bb)
  ELSE IF vAlign = "T" THEN textYTop(gg, d, bb)
  ELSE textYBottom(gg, d)

\* txt, the scratch text g.tref.text(), tx and isEllip in the course of barText
Label(txt, tref, tx, isEllip) ==
  [txt |-> txt, tref |-> tref, tx |-> tx, isEllip |-> isEllip, hangs |-> FALSE]

\* bb.width + 2 * innerBarPadH <= textX: the label and its aligned x
fitted(gg, d, hAlign, label, bb) ==
  IF NumLe(NumAdd(bb.width, NumMul(Num(2), gg.innerBarPadH)), textX(gg, d))
  THEN Label(label, label,
             IF hAlign = "C"
             THEN NumAdd(origX(gg, d), NumDiv(NumSub(textX(gg, d), bb.width), Num(2)))
             ELSE IF hAlign = "R"
             THEN NumSub(NumSub(NumAdd(origX(gg, d), textX(gg, d)), bb.width),
                         gg.innerBarPadH)
             ELSE NumAdd(origX(gg, d), gg.innerBarPadH),
             FALSE)
  ELSE Label("", label, NumAdd(origX(gg, d), gg.innerBarPadH), FALSE)

\* remainingSpaceForText: bHeight - ellipsisLength - extraPadding, 0 at least
remainingSpaceForText(h) ==
  IF NumLt(NumSub(h, Num(40)), Num(0)) THEN Num(0) ELSE NumSub(h, Num(40))

\* numberOfChartoBeEllip
numberOfChartoBeEllip(textLength, txt, h) ==
  NumAdd(NumCeil(NumDiv(NumSub(textLength, remainingSpaceForText(h)),
                        NumDiv(textLength, Num(Len(txt))))),
         Num(20))

\* txt.slice(0, -numberOfChartoBeEllip) + ellipsis, '' when only the ellipsis
ellipsed(txt) == IF txt \o Ellipsis = Ellipsis THEN "" ELSE txt \o Ellipsis

\* if (g.rotateLabel && barWidth > 25) with g.textDots
rotatedDots(gg, d, st, textLength) ==
  IF NumLt(textLength, NumSub(bHeight(gg, d), Num(15))) \/ gg.showTexts = "A"
  THEN [st EXCEPT !.txt = st.tref]
  ELSE [st EXCEPT !.isEllip = TRUE,
                  !.txt = ellipsed(sliceOff(st.tref,
                            numberOfChartoBeEllip(textLength, st.tref, bHeight(gg, d))))]

\* the loop that always takes a character off a label that is not empty
RECURSIVE shrinkAlways(_, _, _, _)
shrinkAlways(gg, avail, txt, tref) ==
  IF Len(txt) > 0
  THEN shrinkAlways(gg, avail, sliceLast(txt), sliceLast(txt) \o Ellipsis)
  ELSE [txt |-> IF Len(txt) # 0 THEN tref ELSE txt, tref |-> tref]

\* while (textLength > textX - 2 * innerBarPadH && txt.length > 0), and
\* if (txt.length != 0) txt = g.tref.text()
RECURSIVE shrink(_, _, _, _)
shrink(gg, avail, txt, tref) ==
  IF NumLt(avail, getComputedTextLength(gg, tref)) /\ Len(txt) > 0
  THEN shrink(gg, avail, sliceLast(txt), sliceLast(txt) \o Ellipsis)
  ELSE [txt |-> IF Len(txt) # 0 THEN tref ELSE txt, tref |-> tref]

\* the width left to a label: textX - 2 * innerBarPadH
availableWidth(gg, d) == NumSub(textX(gg, d), NumMul(Num(2), gg.innerBarPadH))

\* if (!g.rotateLabel && g.textDots): the ellipsis-shrink step
shrinkStep(gg, d, st) == shrink(gg, availableWidth(gg, d), st.tref, st.tref) @@ st

\* if (!g.textDots && g.rotateLabel)
rotatedPlain(gg, d, st) ==
  IF NumLt(bHeight(gg, d), getComputedTextLength(gg, st.tref))
  THEN [st EXCEPT !.txt = "", !.isEllip = FALSE]
  ELSE [st EXCEPT !.txt = st.tref]

\* the label inside the height test
inBar(gg, d, barWidth, st) ==
  IF gg.rotateLabel /\ gg.textDots
  THEN (IF NumLt(Num(25), barWidth)
        THEN rotatedDots(gg, d, st, getComputedTextLength(gg, st.tref))
        ELSE st)
  ELSE IF gg.textDots THEN shrinkStep(gg, d, st)
  ELSE IF gg.rotateLabel THEN rotatedPlain(gg, d, st)
  ELSE st

\* if (bb.height + 2 * innerBarPadV <= bHeight || g.orientation != "V")
fitting(gg, d, hAlign, label, bb, barWidth) ==
  IF \/ NumLe(NumAdd(bb.height, NumMul(Num(2), gg.innerBarPadV)), bHeight(gg, d))
     \/ gg.orientation # "V"
  THEN inBar(gg, d, barWidth, fitted(gg, d, hAlign, label, bb))
  ELSE Label("", label, NumAdd(origX(gg, d), gg.innerBarPadH), FALSE)

\* the loop of a total: while (textLength > barWidth && textLength > 0 &&
\* g.orientation !== 'H'); it hangs once it repeats on the bare ellipsis
RECURSIVE totalLoop(_, _, _, _)
totalLoop(gg, barWidth, txt, tref) ==
  IF /\ NumLt(barWidth, getComputedTextLength(gg, tref))
     /\ NumLt(Num(0), getComputedTextLength(gg, tref))
     /\ gg.orientation # "H"
  THEN IF txt = "" /\ tref = Ellipsis
       THEN [txt |-> txt, tref |-> tref, hangs |-> TRUE]
       ELSE totalLoop(gg, barWidth, IF gg.textDots THEN sliceLast(txt) ELSE "",
                      sliceLast(txt) \o Ellipsis)
  ELSE [txt |-> IF Len(txt) # 0 THEN tref ELSE txt, tref |-> tref, hangs |-> FALSE]

\* if (total)
totalled(gg, total, barWidth, st) ==
  IF total THEN totalLoop(gg, barWidth, st.tref, st.tref) @@ st ELSE st

\* the label kept whatever the gap of the bars
ungapped(gg, st) == st

\* if (g.barGap === 1) txt = ''
gapped(gg, st) == IF gg.barGap = Num(1) THEN [st EXCEPT !.txt = ""] ELSE st

\* the record barText returns; hangs when the call does not return
returned(gg, st, y) ==
  [x |-> finiteOr0(st.tx), y |-> finiteOr0(y), text |-> st.txt,
   rotation |-> gg.rotateLabel /\ gg.orientation = "V",
   isEllip |-> st.isEllip, hangs |-> st.hangs]

barTextOf(gg, d, total, label, bb) ==
  returned(gg,
           gapped(gg, totalled(gg, total, gg.bars[1].width,
                               fitting(gg, d, hAlignOf(gg, total), label, bb,
                                       gg.bars[1].width))),
           textY(gg, d, vAlignOf(gg, total), bb))

barTextFor(gg, d, total, label) == barTextOf(gg, d, total, label, getBBox(gg, label))

\* g.barText(d, total)
barText(gg, d, total) == barTextFor(gg, d, total, getBarLabelText(d, gg, total))

\* d3.format(",.0f")(x): the digits of x rounded to an integer
totalText(x) ==
  IF IsNaN(x) THEN "NaN"
  ELSE IF ~IsFinite(x) THEN (IF x.n < 0 THEN "-Infinity" ELSE "Infinity")
  ELSE ToString(NumRound(x).n)

\* ~"TA".indexOf(g.showTexts) && !g.normalized
totalsShown(gg) == gg.showTexts \in {"T", "A"} /\ ~gg.normalized

\* the .each of the totals: d.qNum and d.qText written on the Category
totalOf(gg, d) ==
  [qNum |-> NumSub(gg.mScale.domain[2], d.offset), qText |-> totalText(d.offset)] @@ d

\* the totals are joined by dim1: the first Category of a label has a node;
\* the Category of the k-th node
totalNode(gg, k) == IndexOf(dim1Labels(gg), FirstSeen(dim1Labels(gg))[k])

\* txp = g.barText(d, true) of every total
totalTexts(gg) ==
  [k \in 1..Len(FirstSeen(dim1Labels(gg))) |->
     barText(gg, totalOf(gg, gg.data[totalNode(gg, k)]), TRUE)]

\* the first call of barText that does not return, 0 when all return
firstHang(txps) ==
  IF \E k \in 1..Len(txps) : txps[k].hangs
  THEN CHOOSE k \in 1..Len(txps) :
         txps[k].hangs /\ \A j \in 1..(k - 1) : ~txps[j].hangs
  ELSE 0

\* the .each of the totals has reached Category c
totalReached(gg, c, hang) ==
  /\ IndexOf(dim1Labels(gg), gg.data[c].dim1) = c
  /\ hang = 0 \/ IndexOf(FirstSeen(dim1Labels(gg)), gg.data[c].dim1) <= hang

totalsUpTo(gg, txps, hang) ==
  [totals |-> IF hang = 0 THEN txps ELSE SubSeq(txps, 1, hang - 1),
   data |-> [c \in 1..Len(gg.data) |->
               IF totalReached(gg, c, hang) THEN totalOf(gg, gg.data[c])
               ELSE gg.data[c]]]

totalsOf(gg) == totalsUpTo(gg, totalTexts(gg), firstHang(totalTexts(gg)))

dataKept(gg) == [totals |-> <<>>, data |-> gg.data]

\* the totals and g.data after the totals are created or updated
dataWithTotals(gg) == IF totalsShown(gg) THEN totalsOf(gg) ELSE dataKept(gg)

\* a total hangs barText
totalsHang(gg) == totalsShown(gg) /\ firstHang(totalTexts(gg)) # 0

\* ~"BA".indexOf(g.showTexts): txp = g.barText(d) of every Segment
textsOf(gg) ==
  IF gg.showTexts \in {"B", "A"}
  THEN [k \in 1..Len(gg.flatData) |-> barText(gg, gg.flatData[k], FALSE)]
  ELSE <<>>

\* g.bars.enter().append("rect")
entered(gg) ==
  [bars |-> [k \in 1..Len(gg.flatData) |-> enterBar(gg, gg.flatData[k])]] @@ gg

\* the totals and the texts over the bars
labelled(gg) ==
  IF totalsHang(gg) THEN dataWithTotals(gg) @@ gg
  ELSE [texts |-> textsOf(gg)] @@ dataWithTotals(gg) @@ gg

\* createBars(), entering is TRUE when the bars have no node yet
createBars(gg, entering) == IF entering THEN labelled(entered(gg)) ELSE gg

\* createBars() does not return
createBarsHangs(gg) == totalsHang(entered(gg))

\* qlik.navigation && !qlik.navigation.inClient
Navigations == {"absent", "inClient", "printing"}

isPrinting(nav) == nav = "printing"

\* g.transitions && !g.editMode && !isPrinting ? configured : 0
transitionOf(gg, nav, configured) ==
  IF gg.transitions /\ ~gg.editMode /\ ~isPrinting(nav) THEN configured ELSE 0

\* the timing without the rule of the 'back' easing
timingAnyEase(gg, nav, configured) == transitionOf(gg, nav, configured)

\* tDelay, tDuration: g.ease === 'back' ? 0 : transitionDelay
timing(gg, nav, configured) ==
  IF gg.ease = "back" THEN 0 ELSE transitionOf(gg, nav, configured)

\* Number.isFinite(d.qNum) && d.qNum > 0 ? d.qNum : 0
positiveOr0(x) == IF IsFinite(x) /\ NumLt(Num(0), x) THEN x ELSE Num(0)

\* v ? v : 0
truthyOr0(v) == IF IsNaN(v) THEN Num(0) ELSE v

\* the y of a vertical bar from the guarded num and offset
barY(scale, num, offset) ==
  IF NumLt(offset, Num(0))
  THEN NumSub(mScaleAt(scale, Num(0)),
              NumSub(mScaleAt(scale, Num(0)), mScaleAt(scale, num)))
  ELSE NumSub(mScaleAt(scale, offset),
              NumSub(mScaleAt(scale, Num(0)), mScaleAt(scale, num)))

\* the height of a vertical bar
barHeight(scale, qNum) ==
  IF ~IsFinite(qNum) THEN Num(0)
  ELSE IF NumLt(mScaleAt(scale, qNum), mScaleAt(scale, Num(0)))
  THEN NumSub(mScaleAt(scale, Num(0)), mScaleAt(scale, qNum))
  ELSE Num(0)

\* the attributes the transition of a vertical bar ends at
barTargetV(gg, d) ==
  Rect(truthyOr0(dScaleAt(gg.dScale, d.dim1)),
       barY(gg.mScale, positiveOr0(d.qNum), finiteOr0(d.offset)),
       IF NumLt(Num(0), gg.dScale.rangeBand) THEN gg.dScale.rangeBand ELSE Num(0),
       barHeight(gg.mScale, d.qNum))

\* the attributes the transition of a horizontal bar ends at
barTargetH(gg, d) ==
  Rect(mScaleAt(gg.mScale, d.offset),
       dScaleAt(gg.dScale, d.dim1),
       mScaleAt(gg.mScale, finiteOr0(d.qNum)),
       gg.dScale.rangeBand)

barTarget(gg, d) ==
  IF gg.orientation = "V" THEN barTargetV(gg, d) ELSE barTargetH(gg, d)

\* g.dScale.domain(dim1), the bands laid out again over the range of
\* initChart; g.mScale.domain([0, g.max > 0 ? g.max : 1])
rescaled(gg) ==
  [gg EXCEPT !.dScale = dScaleOf(gg, gg),
             !.mScale = linear(<<Num(0), domainTop(gg.max)>>, gg.mScale.range)]

\* the targets of the bars of updateBars
targeted(gg, nav) ==
  [isPrinting |-> isPrinting(nav),
   tDelay |-> timing(gg, nav, gg.transitionDelay),
   tDuration |-> timing(gg, nav, gg.transitionDuration),
   bars |-> [k \in 1..Len(gg.flatData) |-> barTarget(gg, gg.flatData[k])]]

\* the bars, totals and texts of updateBars under the reset measure scale;
\* the labels are fitted to the bars as they are before the transition
updatedFrom(gg, nav) == targeted(gg, nav) @@ labelled(gg)

\* updateBars(): this.createBars() finds every node created already
updateBars(gg, nav) == updatedFrom(createBars(rescaled(gg), FALSE), nav)

\* updateBars() does not return
updateBarsHangs(gg) == totalsHang(rescaled(gg))

----------------------------------------------------------------------------
(* The click on a bar: the selectValues calls of the handler createBars    *)
(* puts on every bar.                                                      *)

\* selectValues(dim, ids, toggle) of g.self.backendApi or of g.self
Call(via, dim, ids, toggle) == [via |-> via, dim |-> dim, ids |-> ids, toggle |-> toggle]

\* no key is taken for a null value
hasNullValueNever(d) == FALSE

\* d.qElemNumber < 0: a pair of element ids is no number below 0
hasNullValue(d) == "scalar" \in DOMAIN d.qElemNumber /\ d.qElemNumber.scalar < 0

\* g.self.selectedArrays[i], [] when the host keeps no selectedArrays
selectedArray(sel, i) == IF Len(sel) = 0 THEN <<>> ELSE sel[i]

\* the calls of the CONFIRM mode for two dimensions
confirmTwo(d, sel) ==
  <<Call("self", 1, <<d.qElemNumber.pair[2]>>,
         /\ Contains(selectedArray(sel, 1), d.qElemNumber.pair[1])
         /\ Contains(selectedArray(sel, 2), d.qElemNumber.pair[2])),
    Call("self", 0, <<d.qElemNumber.pair[1]>>,
         /\ Contains(selectedArray(sel, 1), d.qElemNumber.pair[1])
         /\ Contains(selectedArray(sel, 2), d.qElemNumber.pair[2]))>>

\* if (g.self.$scope.g.defDims == 2)
clickTwo(gg, d, sel) ==
  IF gg.defDims # 2 \/ d.dim2 = "" THEN <<>>
  ELSE IF gg.selectionMode = "QUICK"
  THEN <<Call("backendApi", 1, <<d.qElemNumber.pair[2]>>, FALSE),
         Call("backendApi", 0, <<d.qElemNumber.pair[1]>>, FALSE)>>
  ELSE IF gg.selectionMode = "CONFIRM" THEN confirmTwo(d, sel)
  ELSE <<>>

\* if (g.self.$scope.g.defDims == 1)
clickOne(gg, d, sel) ==
  IF gg.defDims # 1 THEN <<>>
  ELSE IF gg.selectionMode = "QUICK"
  THEN <<Call("backendApi", 0, <<d.qElemNumber.scalar>>, TRUE)>>
  ELSE IF gg.selectionMode = "CONFIRM"
  THEN <<Call("self", 0, <<d.qElemNumber.scalar>>,
              Contains(selectedArray(sel, 1), d.qElemNumber.scalar))>>
  ELSE <<>>

\* the calls of one click on the bar of Segment d
click(gg, d, sel) ==
  IF hasNullValue(d) THEN <<>> ELSE clickTwo(gg, d, sel) \o clickOne(gg, d, sel)

----------------------------------------------------------------------------
(* SpecLayout: initChart over the container sizes and the layout           *)
(* properties of the chart.                                                *)

Widths == {0, 240, 241, 350, 351}
Heights == {0, 130, 131, 220, 221}
Orientations == {"V", "H"}
LabelTitles == {"B", "N"}
AxisMargins == {"W", "N"}
LegendPositions == {"L", "R", "T", "B"}
LegendSizes == {"W", "N"}

\* the gaps of the bars and the grid height of a chart
PlainGaps == [barGap |-> Rat(1, 5), outerGap |-> Rat(1, 5), gridHeight |-> Rat(11, 10)]

\* the layout properties copied into the chart state
LayoutProps(Pass(_)) ==
  \E width \in Widths, height \in Heights, orientation \in Orientations,
     labelTitleD \in LabelTitles, labelTitleM \in LabelTitles,
     axisMarginD \in AxisMargins, axisMarginM \in AxisMargins,
     showLegend \in BOOLEAN, legendPosition \in LegendPositions,
     legendSize \in LegendSizes, legendSpacing \in LegendSizes :
    Pass([width |-> width, height |-> height, orientation |-> orientation,
          labelTitleD |-> labelTitleD, labelTitleM |-> labelTitleM,
          axisMarginD |-> axisMarginD, axisMarginM |-> axisMarginM,
          showLegend |-> showLegend, legendPosition |-> legendPosition,
          legendSize |-> legendSize, legendSpacing |-> legendSpacing])

LayoutSet(layout) == g = layout @@ PlainGaps @@ NewChart

InitLayout ==
  /\ LayoutProps(LayoutSet)
  /\ pc = "refresh"
  /\ raised = FALSE

\* refreshChart calls this.initChart()
InitChartCall ==
  /\ pc = "refresh"
  /\ g' = initChart(g)
  /\ pc' = IF initChartRaises(g) THEN "raised" ELSE "chart"
  /\ raised' = initChartRaises(g)

NextLayout == InitChartCall

SpecLayout == InitLayout /\ [][NextLayout]_vars

----------------------------------------------------------------------------
(* SpecRefresh and SpecTiming: refreshChart, any number of times, over the *)
(* data model of one initData pass on a two-dimension hypercube.           *)

MaxRefreshRows == 2     \* rows of the hypercube behind a refreshed chart

RefreshDim2Labels == {"P", "Q"}
Sizes == {<<0, 0>>, <<300, 200>>}      \* the container: width, height
TextModes == {"N", "B", "T", "A"}      \* g.showTexts
Eases == {"back", "linear"}
ConfiguredDelay == 200                 \* g.transitionDelay
ConfiguredDuration == 1000             \* g.transitionDuration

\* labels centred in the bars, shrunk to fit, not rotated
PlainTexts ==
  [hAlign |-> "C", vAlign |-> "C", innerBarPadV |-> Num(2), innerBarPadH |-> Num(2),
   textSize |-> 10, textDots |-> TRUE, rotateLabel |-> FALSE, showDim |-> "M",
   showTot |-> "M"]

\* the layout of a chart with both axes labelled and no legend
PlainLayout ==
  [labelTitleD |-> "B", labelTitleM |-> "B", axisMarginD |-> "N", axisMarginM |-> "N",
   showLegend |-> FALSE, legendPosition |-> "R", legendSize |-> "N",
   legendSpacing |-> "N"] @@ PlainGaps

\* the properties refreshChart reads
RefreshProps(size, orientation, showTexts, transitions, editMode, ease) ==
  [width |-> size[1], height |-> size[2], orientation |-> orientation,
   showTexts |-> showTexts, transitions |-> transitions, editMode |-> editMode,
   ease |-> ease, transitionDelay |-> ConfiguredDelay,
   transitionDuration |-> ConfiguredDuration] @@ PlainTexts @@ PlainLayout

\* the chart after initProps() and initData()
Reshaped(props, in) == props @@ initData(initProps(NewChart, in)).g

\* charts of every size, orientation and text mode over the hypercubes of
\* up to MaxRefreshRows rows, with transitions configured
InitRefresh ==
  /\ \E size \in Sizes, orientation \in Orientations, showTexts \in TextModes,
        norm \in BOOLEAN, len \in 1..MaxRefreshRows :
       \E rows \in [1..len -> RowsOf(Dim1Labels, RefreshDim2Labels, Values, 2, 1)] :
         g = Reshaped(RefreshProps(size, orientation, showTexts, TRUE, FALSE, "linear"),
                      Props(rows, 2, <<"M">>, norm, FALSE))
  /\ pc = "refresh"
  /\ raised = FALSE

\* charts of every transition setting over the hypercubes of one row
InitTiming ==
  /\ \E orientation \in Orientations, showTexts \in TextModes,
        transitions \in BOOLEAN, editMode \in BOOLEAN, ease \in Eases :
       \E row \in RowsOf(Dim1Labels, RefreshDim2Labels, Values, 2, 1) :
         g = Reshaped(RefreshProps(<<300, 200>>, orientation, showTexts, transitions,
                                   editMode, ease),
                      Props(<<row>>, 2, <<"M">>, FALSE, FALSE))
  /\ pc = "refresh"
  /\ raised = FALSE

TextSizes == {10, 60, 200}             \* g.textSize, px
BarGaps == {Rat(1, 5), Num(1)}         \* g.barGap
Alignments == {<<"L", "T">>, <<"C", "C">>, <<"R", "B">>}   \* g.hAlign, g.vAlign
TextContents == {"M", "D"}             \* g.showDim: the measure, the dimension
TextValues == {0, 2}                   \* the measure of the one row

\* the one row of a labelled chart: a long dim1 label, a dim2 label, a measure
TextRow(v) == <<Cell(0, NaN, "North"), DimCell("P"), MeasCell(v)>>

\* the properties barText reads
TextProps(align, textSize, textDots, rotateLabel, showDim, barGap) ==
  [hAlign |-> align[1], vAlign |-> align[2], textSize |-> textSize,
   textDots |-> textDots, rotateLabel |-> rotateLabel, showDim |-> showDim,
   barGap |-> barGap]

\* charts of every text setting over the hypercubes of one row
InitText ==
  /\ \E orientation \in Orientations, showTexts \in TextModes \ {"N"},
        align \in Alignments, textSize \in TextSizes, textDots \in BOOLEAN,
        rotateLabel \in BOOLEAN, showDim \in TextContents, barGap \in BarGaps,
        v \in TextValues :
       g = Reshaped(TextProps(align, textSize, textDots, rotateLabel, showDim, barGap)
                      @@ RefreshProps(<<300, 200>>, orientation, showTexts, TRUE,
                                      FALSE, "linear"),
                    Props(<<TextRow(v)>>, 2, <<"M">>, FALSE, FALSE))
  /\ pc = "refresh"
  /\ raised = FALSE

\* refreshChart calls this.createBars()
CreateBarsCall ==
  /\ pc = "chart"
  /\ g' = createBars(g, TRUE)
  /\ pc' = IF createBarsHangs(g) THEN "hung" ELSE "bars"
  /\ UNCHANGED raised

\* refreshChart calls this.updateBars()
UpdateBarsCall ==
  /\ pc = "bars"
  /\ \E nav \in Navigations : g' = updateBars(g, nav)
  /\ pc' = IF updateBarsHangs(g) THEN "hung" ELSE "updated"
  /\ UNCHANGED raised

\* refreshChart is called again (a resize, a property of edit mode)
RefreshAgain ==
  /\ pc = "updated"
  /\ pc' = "refresh"
  /\ UNCHANGED <<g, raised>>

NextRefresh == InitChartCall \/ CreateBarsCall \/ UpdateBarsCall \/ RefreshAgain

SpecRefresh == InitRefresh /\ [][NextRefresh]_vars

SpecTiming == InitTiming /\ [][NextRefresh]_vars

SpecText == InitText /\ [][NextRefresh]_vars

----------------------------------------------------------------------------
(* SpecClick: clicks on the bars of a chart after one initData pass.       *)

SelectionModes == {"QUICK", "CONFIRM"}

\* g.self.selectedArrays: none, or the element ids selected per dimension
SelectedArrays == {<<>>, <<<<0>>, <<5>>>>, <<<<1>>, <<>>>>}

\* a null value of a dimension: element id -2
NullCell == Cell(-2, NaN, "-")

\* a value of the second dimension with an empty text
EmptyCell == Cell(8, NaN, "")

\* hypercubes with a null value or an empty text in a dimension
OddHypercubes(Pass(_)) ==
  \/ Pass(Props(<<<<NullCell, MeasCell(2)>>>>, 1, <<"M">>, FALSE, FALSE))
  \/ Pass(Props(<<<<NullCell, DimCell("P"), MeasCell(2)>>>>, 2, <<"M">>, FALSE, FALSE))
  \/ Pass(Props(<<<<DimCell("A"), NullCell, MeasCell(2)>>>>, 2, <<"M">>, FALSE, FALSE))
  \/ Pass(Props(<<<<DimCell("A"), EmptyCell, MeasCell(2)>>>>, 2, <<"M">>, FALSE, FALSE))

\* the chart after initProps() and initData(), no bar clicked yet
Shown(in) ==
  \E mode \in SelectionModes :
    g = [selectionMode |-> mode, calls |-> <<>>, clicked |-> 0]
          @@ initData(initProps(NewChart, in)).g

InitClick ==
  /\ \/ Hypercubes(PaintDim2Labels, PaintValues, PaintValues, MaxPaintRows,
                   MaxPaintMeasRows, Shown)
     \/ OddHypercubes(Shown)
  /\ pc = "shown"
  /\ raised = FALSE

\* the user clicks the bar of the k-th Segment
Click ==
  /\ pc \in {"shown", "clicked"}
  /\ \E k \in 1..Len(g.flatData), sel \in SelectedArrays :
       g' = [g EXCEPT !.calls = click(g, g.flatData[k], sel), !.clicked = k]
  /\ pc' = "clicked"
  /\ UNCHANGED raised

NextClick == Click

SpecClick == InitClick /\ [][NextClick]_vars

----------------------------------------------------------------------------
(* SpecPaint: paint cycles. Every paint() fetches the palette with         *)
(* updateColorSchemas(this) and chains .then(callback).catch(handler);     *)
(* g.cycles keeps the promises of every cycle, g.colorSchemas is the       *)
(* colorSchemas of the colorSchemas module, g.chart is $scope.g.           *)

MaxCycles == 2   \* paint cycles in a behaviour

\* colorSchemas.js: defaultColorSchema
defaultColorSchema == [label |-> "", colors |-> <<"#999999", "#333333">>]

Scale(name, type, colors) == [name |-> name, type |-> type, scale |-> <<colors>>]

\* what app.theme.getApplied() resolves with: qTheme.properties with its
\* scales, or without scales
Theme(scales) == [hasScales |-> TRUE, scales |-> scales]

NoScales == [hasScales |-> FALSE, scales |-> <<>>]

Themes ==
  {Theme(<<Scale("Heat", "gradient", <<"#f00">>),
           Scale("Blues", "class-pyramid", <<"#08f", "#00f">>)>>),
   Theme(<<Scale("Greens", "class-pyramid", <<"#0f0">>)>>),
   NoScales}

\* scales.filter(scale => scale.type === 'class-pyramid')
RECURSIVE pyramids(_)
pyramids(scales) ==
  IF Len(scales) = 0 THEN <<>>
  ELSE IF Head(scales).type = "class-pyramid"
  THEN <<Head(scales)>> \o pyramids(Tail(scales))
  ELSE pyramids(Tail(scales))

\* .map(scale => ({label, component, value, colors})): the colours are
\* scale.scale[scale.scale.length - 1]
schemasOf(scales) ==
  [i \in 1..Len(pyramids(scales)) |->
     [label |-> pyramids(scales)[i].name,
      colors |-> pyramids(scales)[i].scale[Len(pyramids(scales)[i].scale)]]]

\* getDefaultColorSchema(): colorSchemas[0] || defaultColorSchema
getDefaultColorSchema(schemas) ==
  IF Len(schemas) > 0 THEN schemas[1] ELSE defaultColorSchema

\* getColorSchemaByName(name)
getColorSchemaByName(schemas, name) ==
  IF \E i \in 1..Len(schemas) : schemas[i].label = name
  THEN schemas[CHOOSE i \in 1..Len(schemas) :
                 /\ schemas[i].label = name
                 /\ \A j \in 1..(i - 1) : schemas[j].label # name]
  ELSE getDefaultColorSchema(schemas)

\* a paint cycle: the promise of getApplied() (applied), of
\* updateColorSchemas (fetch), of .then(callback) (then), of .catch(handler)
\* (caught); the calls the callback made, the colours initChart gave the
\* colour scale, the arguments of console.error
NewCycle ==
  [applied |-> "pending", theme |-> NoScales, fetch |-> "pending",
   stored |-> FALSE, then |-> "pending", caught |-> "pending", reason |-> "",
   ran |-> <<>>, colors |-> <<>>, logged |-> <<>>]

\* a .then(callback) runs its callback for a settled promise of any outcome
thenRunsSettled(state) == state # "pending"

\* a .then(callback) runs its callback when the promise it is chained to is
\* fulfilled
thenRuns(state) == state = "fulfilled"

\* a rejection passes through a .then(callback) to the promise it returns
thenPasses(state) == state = "rejected"

PaintedValues == {2, -1}          \* the measure value of the painted row

InteractionStates == {1, 2}       \* self.options.interactionState

PaintedSchemas == {"Blues"}   \* g.colorSchema

PaintProps(editMode, schema) ==
  [colorSchema |-> schema]
    @@ RefreshProps(<<300, 200>>, "V", "B", TRUE, editMode, "linear")

\* initProps(); g.initData() of the callback
paintData(editMode, schema, v) ==
  Reshaped(PaintProps(editMode, schema),
           Props(<<<<DimCell("A"), DimCell("P"), MeasCell(v)>>>>, 2, <<"M">>,
                 FALSE, FALSE))

\* g.refreshChart() of the callback
refreshChart(gg) ==
  IF initChartRaises(gg) THEN initChart(gg)
  ELSE updateBars(createBars(initChart(gg), TRUE), "absent")

\* the callback of paint in edit mode, gg being g after initProps() and
\* g.initData(): $scope.g after it, whether it threw, what it ran
edited(gg, schemas, schema) ==
  [chart |-> refreshChart(gg),
   threw |-> initChartRaises(gg),
   ran |-> <<"initProps", "initData", "refreshChart">>,
   colors |-> IF initChartRaises(gg) THEN <<>>
              ELSE getColorSchemaByName(schemas, schema).colors]

\* the callback of paint
callback(chart, schemas, state, schema, v) ==
  IF state # 2
  THEN [chart |-> [editMode |-> FALSE] @@ chart, threw |-> FALSE, ran |-> <<>>,
        colors |-> <<>>]
  ELSE edited(paintData(TRUE, schema, v), schemas, schema)

\* the page after the callback of cycle c
called(page, c, done) ==
  [page EXCEPT
     !.chart = done.chart,
     !.cycles[c].ran = done.ran,
     !.cycles[c].colors = done.colors,
     !.cycles[c].reason = IF done.threw THEN "TypeError" ELSE @,
     !.cycles[c].then = IF done.threw THEN "rejected" ELSE "fulfilled"]

InitPaint ==
  /\ g = [colorSchemas |-> <<>>, cycles |-> <<>>, chart |-> NewChart]
  /\ pc = "idle"
  /\ raised = FALSE

\* the host calls paint(): updateColorSchemas(this) starts the fetch
PaintCall ==
  /\ Len(g.cycles) < MaxCycles
  /\ g' = [g EXCEPT !.cycles = Append(@, NewCycle)]
  /\ pc' = "painting"
  /\ UNCHANGED raised

\* the host fulfils getApplied() of cycle c
Applied(c) ==
  /\ g.cycles[c].applied = "pending"
  /\ \E theme \in Themes :
       g' = [g EXCEPT !.cycles[c].applied = "fulfilled", !.cycles[c].theme = theme]
  /\ pc' = "painting"
  /\ UNCHANGED raised

\* the host rejects getApplied() of cycle c
Refused(c) ==
  /\ g.cycles[c].applied = "pending"
  /\ g' = [g EXCEPT !.cycles[c].applied = "rejected",
                    !.cycles[c].reason = "NetworkError"]
  /\ pc' = "painting"
  /\ UNCHANGED raised

\* the .then(qTheme => ...) of updateColorSchemas: colorSchemas = schemas, or
\* a TypeError for properties without scales; a rejection passes through
Store(c) ==
  /\ g.cycles[c].applied # "pending"
  /\ g.cycles[c].fetch = "pending"
  /\ g' = IF thenPasses(g.cycles[c].applied)
          THEN [g EXCEPT !.cycles[c].fetch = "rejected"]
          ELSE IF g.cycles[c].theme.hasScales
          THEN [g EXCEPT !.colorSchemas = schemasOf(g.cycles[c].theme.scales),
                         !.cycles[c].stored = TRUE,
                         !.cycles[c].fetch = "fulfilled"]
          ELSE [g EXCEPT !.cycles[c].fetch = "rejected",
                         !.cycles[c].reason = "TypeError"]
  /\ pc' = "painting"
  /\ UNCHANGED raised

\* the .then(() => ...) of paint
Callback(c) ==
  /\ g.cycles[c].fetch # "pending"
  /\ g.cycles[c].then = "pending"
  /\ \E state \in InteractionStates, schema \in PaintedSchemas, v \in PaintedValues :
       g' = IF thenRuns(g.cycles[c].fetch)
            THEN called(g, c, callback(g.chart, g.colorSchemas, state, schema, v))
            ELSE [g EXCEPT !.cycles[c].then = "rejected"]
  /\ pc' = "painting"
  /\ UNCHANGED raised

\* the .catch(error => ...) of paint: console.error(error); throw error
Handler(c) ==
  /\ g.cycles[c].then # "pending"
  /\ g.cycles[c].caught = "pending"
  /\ g' = IF g.cycles[c].then = "rejected"
          THEN [g EXCEPT !.cycles[c].logged = Append(@, g.cycles[c].reason),
                         !.cycles[c].caught = "rejected"]
          ELSE [g EXCEPT !.cycles[c].caught = "fulfilled"]
  /\ pc' = "painting"
  /\ raised' = (raised \/ g.cycles[c].then = "rejected")

NextPaint ==
  \/ PaintCall
  \/ \E c \in 1..Len(g.cycles) :
       Applied(c) \/ Refused(c) \/ Store(c) \/ Callback(c) \/ Handler(c)

SpecPaint == InitPaint /\ [][NextPaint]_vars

----------------------------------------------------------------------------
(* SpecSort: toposort(nodes, edges) on duplicate-free node lists and       *)
(* edges between their nodes.                                              *)

MaxSortEdges == 3    \* edges handed to toposort

SortLabels == {"a", "b", "c"}

\* the duplicate-free lists of labels
NodeLists ==
  {nodes \in UNION {[1..n -> SortLabels] : n \in 0..Cardinality(SortLabels)} :
     \A i, j \in 1..Len(nodes) : i # j => nodes[i] # nodes[j]}

\* the lists of up to MaxSortEdges edges [from, to] between the nodes
EdgeLists(nodes) ==
  UNION {[1..n -> {<<nodes[i], nodes[j]>> : i, j \in 1..Len(nodes)}] :
           n \in 0..MaxSortEdges}

InitSort ==
  /\ \E nodes \in NodeLists : \E edges \in EdgeLists(nodes) :
       g = [nodes |-> nodes, edges |-> edges, thrown |-> FALSE, sorted |-> <<>>]
  /\ pc = "unsorted"
  /\ raised = FALSE

\* this.toposort(nodes, edges)
ToposortCall ==
  /\ pc = "unsorted"
  /\ g' = [g EXCEPT !.thrown = toposort(g.nodes, g.edges).thrown,
                    !.sorted = toposort(g.nodes, g.edges).sorted]
  /\ pc' = "sorted"
  /\ raised' = toposort(g.nodes, g.edges).thrown

NextSort == ToposortCall

SpecSort == InitSort /\ [][NextSort]_vars

----------------------------------------------------------------------------
(* The nodes of the svg and the d3 transitions scheduled on them.          *)

\* a node appended by createBars: the datum bound to it (the key of a keyed
\* join), its opacity and attributes, the transitions scheduled on it
\* (node.__transition__) and the id of the one that started last
Node(datum, shape) ==
  [datum |-> datum, opacity |-> "0", shape |-> shape, lock |-> {}, active |-> 0]

\* .transition().delay(tDelay).duration(tDuration): the id, whether it ends
\* in .remove(), the opacity and the attributes it ends at
Transition(id, exit, opacity, shape) ==
  [id |-> id, exit |-> exit, opacity |-> opacity, shape |-> shape]

\* d3_transitionNode: lock[id] = transition, ++lock.count
scheduled(node, t) == [node EXCEPT !.lock = @ \cup {t}]

\* .exit().transition()....style("opacity", "0").remove()
exiting(node, id) == scheduled(node, Transition(id, TRUE, "0", node.shape))

\* the node of the update selection, bound to the new datum, and its
\* transition to the target
updating(node, datum, id, opacity, shape) ==
  scheduled([node EXCEPT !.datum = datum], Transition(id, FALSE, opacity, shape))

\* selection.data(data) without a key: node k takes datum k, the nodes past
\* the data exit, the data past the nodes enter; the entered nodes belong to
\* the update selection
indexJoined(nodes, data, entering, targets, id) ==
  [k \in 1..(IF Len(nodes) > Len(data) THEN Len(nodes) ELSE Len(data)) |->
     IF k > Len(data) THEN exiting(nodes[k], id)
     ELSE IF k > Len(nodes)
     THEN updating(Node(data[k], entering[k]), data[k], id, "1", targets[k])
     ELSE updating(nodes[k], data[k], id, "1", targets[k])]

\* the keys of the nodes: key.call(node, node.__data__, i)
nodeKeys(nodes) == [k \in 1..Len(nodes) |-> nodes[k].datum]

\* selection.data(data, key): node k is in the update selection when it is
\* the first node of its key and a datum has the key
keyedUpdate(nodes, keys, k) ==
  IndexOf(nodeKeys(nodes), nodes[k].datum) = k /\ Contains(keys, nodes[k].datum)

\* the data that enter: the first datum of a key that no node has
keyedEnter(nodes, keys) ==
  SelectSeq(FirstSeen(keys), LAMBDA key : ~Contains(nodeKeys(nodes), key))

\* the nodes of a keyed join, of which only the exit is given a transition
keyedExits(nodes, keys, id) ==
  [k \in 1..Len(nodes) |->
     IF keyedUpdate(nodes, keys, k) THEN nodes[k] ELSE exiting(nodes[k], id)]

\* the nodes of a keyed join after the exit, the enter of createBars and the
\* update; entering and targets list the attributes of FirstSeen(keys)
keyedJoined(nodes, keys, entering, opacity, targets, id) ==
  [k \in 1..Len(nodes) |->
     IF keyedUpdate(nodes, keys, k)
     THEN updating(nodes[k], nodes[k].datum, id, opacity,
                   targets[IndexOf(FirstSeen(keys), nodes[k].datum)])
     ELSE exiting(nodes[k], id)]
  \o [k \in 1..Len(keyedEnter(nodes, keys)) |->
        updating(Node(keyedEnter(nodes, keys)[k],
                      entering[IndexOf(FirstSeen(keys), keyedEnter(nodes, keys)[k])]),
                 keyedEnter(nodes, keys)[k], id, opacity,
                 targets[IndexOf(FirstSeen(keys), keyedEnter(nodes, keys)[k])])]

\* a start that leaves the other transitions of the node alone
startedAlone(node, id) == [node EXCEPT !.active = id]

\* d3_transitionNode start(): the active transition is interrupted, the
\* scheduled ones of a lower id are cancelled, lock.active = id
started(node, id) ==
  [node EXCEPT !.lock = {t \in @ : t.id >= id /\ t.id # node.active},
               !.active = id]

\* a remove that does not count the transitions of the node
removesAny(node, t) == t.exit

\* transition.remove(): on "end", if (this[ns].count < 2 && parentNode)
removes(node, t) == t.exit /\ Cardinality(node.lock) < 2

\* transition id is scheduled on the node and has not started
pending(node, id) == node.active # id /\ \E t \in node.lock : t.id = id

\* transition id runs on the node
running(node, id) == node.active = id /\ \E t \in node.lock : t.id = id

\* the transition of the node that has started
activeOf(node) == CHOOSE t \in node.lock : t.id = node.active

\* d3_transitionNode tick() at t >= 1: the tweens at their end values, the
\* "end" event, delete lock[id]
ended(node) ==
  [node EXCEPT !.opacity = activeOf(node).opacity, !.shape = activeOf(node).shape,
               !.lock = @ \ {activeOf(node)}]

\* the timer of transition id fires its start on the node
startsOn(node, id) == IF pending(node, id) THEN started(node, id) ELSE node

\* the timer of transition id reaches its end on the node
endsOn(node, id) == IF running(node, id) THEN ended(node) ELSE node

\* the node is taken out of the document at the end of transition id
removedAt(node, id) == running(node, id) /\ removes(node, activeOf(node))

\* the nodes of a selection after the transitions id have started
allStarted(nodes, id) == [k \in 1..Len(nodes) |-> startsOn(nodes[k], id)]

\* the nodes of a selection after the transitions id have ended
allEnded(nodes, id) ==
  [k \in 1..Len(SelectSeq(nodes, LAMBDA node : ~removedAt(node, id))) |->
     endsOn(SelectSeq(nodes, LAMBDA node : ~removedAt(node, id))[k], id)]

\* the document: the rects .ldwbar, the texts .ldwtot and the polygons
Document(bars, totals, polys) == [bars |-> bars, totals |-> totals, polys |-> polys]

\* g.component.selectAll("*").remove()
NoNodes == Document(<<>>, <<>>, <<>>)

\* d => d.dim1p + "-" + d.dim1c + "," + d.dim2
polyKey(d) == d.dim1p \o "-" \o d.dim1c \o "," \o d.dim2

polyKeys(gg) == [k \in 1..Len(gg.deltas) |-> polyKey(gg.deltas[k])]

\* g.showDeltas && g.nDims == 2
deltasShown(gg) == gg.showDeltas /\ gg.nDims = 2

\* .style("opacity", g.barGap == 1 ? "1" : "0.5")
polyOpacity(gg) == IF gg.barGap = Num(1) THEN "1" ELSE "0.5"

\* the polygons are told apart by their key and opacity only
NoShapes(gg) == [k \in 1..Len(FirstSeen(polyKeys(gg))) |-> <<>>]

\* the x and y attributes of the total a transition ends at
totalTarget(txp) == [x |-> txp.x, y |-> txp.y]

\* the entering total: x is txp.x and y is g.mScale(0) on a vertical chart,
\* x is 0 and y is txp.y on a horizontal one
enterTotal(gg, txp) ==
  IF gg.orientation = "V" THEN [x |-> txp.x, y |-> mScaleAt(gg.mScale, Num(0))]
  ELSE [x |-> Num(0), y |-> txp.y]

enterBars(gg) == [k \in 1..Len(gg.flatData) |-> enterBar(gg, gg.flatData[k])]

enterTotals(gg, txps) == [k \in 1..Len(txps) |-> enterTotal(gg, txps[k])]

totalTargets(txps) == [k \in 1..Len(txps) |-> totalTarget(txps[k])]

\* the totals of updateBars: joined and faded out when g.showTexts is T or
\* A, created and moved only when the chart is not normalized as well
totalsJoined(nodes, gg, txps, id) ==
  IF gg.showTexts \notin {"T", "A"} THEN nodes
  ELSE IF gg.normalized THEN keyedExits(nodes, dim1Labels(gg), id)
  ELSE keyedJoined(nodes, dim1Labels(gg), enterTotals(gg, txps), "1",
                   totalTargets(txps), id)

\* the polygons of updateBars
polysJoined(nodes, gg, id) ==
  IF deltasShown(gg)
  THEN keyedJoined(nodes, polyKeys(gg), NoShapes(gg), polyOpacity(gg), NoShapes(gg), id)
  ELSE nodes

\* the document after updateBars() with the transitions id: gg is the chart
\* under the scales of updateBars, u the chart updateBars leaves
documentJoined(dom, gg, u, id) ==
  Document(indexJoined(dom.bars, gg.flatData, enterBars(gg), u.bars, id),
           totalsJoined(dom.totals, gg, u.totals, id),
           polysJoined(dom.polys, gg, id))

\* the nodes createBars() appends to the empty document of initChart, c being
\* the chart createBars leaves
documentCreated(c) ==
  Document([k \in 1..Len(c.flatData) |-> Node(c.flatData[k], enterBars(c)[k])],
           IF totalsShown(c)
           THEN [k \in 1..Len(c.totals) |->
                   Node(FirstSeen(dim1Labels(c))[k], enterTotal(c, c.totals[k]))]
           ELSE <<>>,
           IF deltasShown(c)
           THEN [k \in 1..Len(FirstSeen(polyKeys(c))) |->
                   Node(FirstSeen(polyKeys(c))[k], <<>>)]
           ELSE <<>>)

\* the document after the timers of the transitions id have fired their start
documentStarted(dom, id) ==
  Document(allStarted(dom.bars, id), allStarted(dom.totals, id),
           allStarted(dom.polys, id))

\* the document after the transitions id have reached their end
documentEnded(dom, id) ==
  Document(allEnded(dom.bars, id), allEnded(dom.totals, id), allEnded(dom.polys, id))

\* a node of the document satisfies Is
SomeNode(dom, Is(_)) ==
  \/ \E k \in 1..Len(dom.bars) : Is(dom.bars[k])
  \/ \E k \in 1..Len(dom.totals) : Is(dom.totals[k])
  \/ \E k \in 1..Len(dom.polys) : Is(dom.polys[k])

----------------------------------------------------------------------------
(* SpecDom: a drawn chart whose hypercube changes; every change is drawn   *)
(* by updateBars() or by refreshChart() while the transitions of earlier   *)
(* calls may still be scheduled or running.                                *)

MaxUpdates == 2    \* calls of updateBars or refreshChart on the drawn chart

DomDims == {1, 2}                      \* dimensions of the hypercube
DomTexts == {"T", "N"}                 \* g.showTexts

DomRow(d, label, v) ==
  IF d = 2 THEN <<DimCell(label), DimCell("P"), MeasCell(v)>>
  ELSE <<DimCell(label), MeasCell(v)>>

\* the hypercubes of a chart: one Category, two, a repeated label, a
\* negative measure
DomRowLists(d) ==
  {<<DomRow(d, "A", 2)>>,
   <<DomRow(d, "A", 2), DomRow(d, "B", 2)>>,
   <<DomRow(d, "A", 2), DomRow(d, "A", 2)>>,
   <<DomRow(d, "A", -1)>>}

\* the chart after initProps() and initData() on new rows
reloaded(gg, rows) ==
  initData(initProps(gg, Props(rows, gg.defDims, gg.measures, gg.normalized,
                               gg.showDeltas))).g

\* a transition is scheduled or running on a node of the document
InFlight(dom) == SomeNode(dom, LAMBDA node : node.lock # {})

\* the chart u and the document that updateBars() leaves, r being the chart
\* under the scales of updateBars; call says which call it was and
\* overlapped whether transitions were scheduled or running at the call
joined(dom, r, u, id, call, overlapped) ==
  [chart |-> u, dom |-> documentJoined(dom, r, u, id), round |-> id,
   call |-> call, overlapped |-> overlapped]

\* refreshChart() stopped by the TypeError of initChart(), which has
\* emptied the component before it computes g.max
stopped(gg, id, overlapped) ==
  [chart |-> gg, dom |-> NoNodes, round |-> id, call |-> "refreshChart",
   overlapped |-> overlapped]

\* the document after the transitions id have started and ended
settled(dom, id) == documentEnded(documentStarted(dom, id), id)

\* a chart drawn by refreshChart() whose transitions have ended
Drawn(c, u) ==
  g = [joined(documentCreated(c), rescaled(c), u, 1, "refreshChart", FALSE)
         EXCEPT !.dom = settled(@, 1)]

InitDom ==
  /\ \E orientation \in Orientations, text \in DomTexts, d \in DomDims :
       \E rows \in DomRowLists(d) :
         \E gg \in {Reshaped(RefreshProps(<<300, 200>>, orientation, text, TRUE,
                                          FALSE, "linear"),
                             Props(rows, d, <<"M">>, FALSE, TRUE))} :
           /\ ~initChartRaises(gg)
           /\ \E c \in {createBars(initChart(gg), TRUE)} :
                \E u \in {updateBars(c, "absent")} : Drawn(c, u)
  /\ pc = "drawn"
  /\ raised = FALSE

\* the hypercube changes and the change is drawn by updateBars()
UpdateBarsOnData ==
  /\ pc = "drawn"
  /\ g.round <= MaxUpdates
  /\ \E rows \in DomRowLists(g.chart.defDims) :
       \E gg \in {reloaded(g.chart, rows)} :
         \E u \in {updateBars(gg, "absent")} :
           /\ g' = joined(g.dom, rescaled(gg), u, g.round + 1, "updateBars",
                          InFlight(g.dom))
           /\ pc' = IF updateBarsHangs(gg) THEN "hung" ELSE "drawn"
  /\ UNCHANGED raised

\* refreshChart() on the chart gg of the new rows
RefreshChartOn(gg) ==
  IF initChartRaises(gg)
  THEN /\ g' = stopped(initChart(gg), g.round + 1, InFlight(g.dom))
       /\ pc' = "raised"
       /\ raised' = TRUE
  ELSE \E c \in {createBars(initChart(gg), TRUE)} :
         \E u \in {updateBars(c, "absent")} :
           /\ g' = joined(documentCreated(c), rescaled(c), u, g.round + 1,
                          "refreshChart", InFlight(g.dom))
           /\ pc' = IF createBarsHangs(initChart(gg)) \/ updateBarsHangs(c)
                    THEN "hung" ELSE "drawn"
           /\ raised' = FALSE

\* the hypercube changes and the change is drawn by refreshChart()
RefreshChartOnData ==
  /\ pc \in {"drawn", "raised"}
  /\ g.round <= MaxUpdates
  /\ \E rows \in DomRowLists(g.chart.defDims) :
       \E gg \in {reloaded(g.chart, rows)} : RefreshChartOn(gg)

\* the timers of the transitions of one call fire their start; the calls
\* may differ in delay, so that the transitions of any call may start first
TransitionsStart ==
  /\ pc = "drawn"
  /\ \E id \in 1..g.round :
       /\ SomeNode(g.dom, LAMBDA node : pending(node, id))
       /\ g' = [g EXCEPT !.dom = documentStarted(g.dom, id)]
  /\ UNCHANGED <<pc, raised>>

\* the transitions of one call reach their end
TransitionsEnd ==
  /\ pc = "drawn"
  /\ \E id \in 1..g.round :
       /\ SomeNode(g.dom, LAMBDA node : running(node, id))
       /\ g' = [g EXCEPT !.dom = documentEnded(g.dom, id)]
  /\ UNCHANGED <<pc, raised>>

NextDom == UpdateBarsOnData \/ RefreshChartOnData \/ TransitionsStart \/ TransitionsEnd

SpecDom == InitDom /\ [][NextDom]_vars

----------------------------------------------------------------------------
(* Properties of initChart.                                                *)

\* the inner plot before the legend takes its share: the container less the
\* margins
InnerWidth == g.width - (yAxisWidth(g) + titleSize(yLabelTitle(g)) + 20) - 20

InnerHeight == g.height - 10 - (xAxisHeight(g) + titleSize(xLabelTitle(g)) + 20)

\* C13: initChart marks the legend unused (g.lgn.use = "") when showLegend is
\* off, when the position is left or right and the inner plot width is <= 200,
\* or when the position is top or bottom and the inner plot height is <= 100;
\* in every other case g.lgn.use is the configured position.
C13_LegendUse ==
  pc = "chart" =>
    g.lgn.use = IF \/ ~g.showLegend
                   \/ g.legendPosition \in {"L", "R"} /\ InnerWidth <= 200
                   \/ g.legendPosition \in {"T", "B"} /\ InnerHeight <= 100
                THEN ""
                ELSE g.legendPosition

\* a right legend without axis labels: container width 240 is inner width 200
\* and leaves the legend unused
C13_Witness ==
  /\ pc = "chart"
  /\ g.showLegend
  /\ g.legendPosition = "R"
  /\ g.width = 240
  /\ InnerWidth = 200
  /\ g.lgn.use = ""

\* the same legend at container width 241, inner width 201: a usable block
C13_WitnessUsable ==
  /\ pc = "chart"
  /\ g.showLegend
  /\ g.legendPosition = "R"
  /\ InnerWidth = 201
  /\ g.lgn.use = "R"
  /\ g.lgn.width = Rat(201, 4)

----------------------------------------------------------------------------
(* Properties of refreshChart.                                             *)

\* C14: in updateBars the transition delay and duration are both 0 whenever
\* transitions are disabled, edit mode is active, a print or export context is
\* active, or the configured easing is 'back'; in every other case they are
\* the configured transitionDelay and transitionDuration.
C14_TransitionTiming ==
  pc = "updated" =>
    IF ~g.transitions \/ g.editMode \/ g.isPrinting \/ g.ease = "back"
    THEN g.tDelay = 0 /\ g.tDuration = 0
    ELSE g.tDelay = g.transitionDelay /\ g.tDuration = g.transitionDuration

\* transitions enabled in analysis mode, in the client, with the 'back' easing
C14_Witness ==
  /\ pc = "updated"
  /\ g.transitions /\ ~g.editMode /\ ~g.isPrinting
  /\ g.ease = "back"
  /\ g.transitionDelay > 0 /\ g.transitionDuration > 0
  /\ g.tDelay = 0 /\ g.tDuration = 0

\* the same chart with another easing keeps the configured timing
C14_WitnessConfigured ==
  /\ pc = "updated"
  /\ g.transitions /\ ~g.editMode /\ ~g.isPrinting
  /\ g.ease = "linear"
  /\ g.tDelay = ConfiguredDelay /\ g.tDuration = ConfiguredDuration

\* C15: refreshChart (initChart, then createBars, then updateBars, without
\* initData) leaves the data model unchanged: every step of it keeps g.data,
\* g.flatData, g.allDim2 and g.deltas as they were, for every text-display
\* mode and in every refresh.
C15_RefreshKeepsData ==
  [][/\ g'.data = g.data
     /\ g'.flatData = g.flatData
     /\ g'.allDim2 = g.allDim2
     /\ g'.deltas = g.deltas]_vars

\* totals shown: createBars has written qNum and qText on a Category
C15_TotalsWritten ==
  /\ pc = "bars"
  /\ g.showTexts = "T"
  /\ \E c \in 1..Len(g.data) :
       /\ "qNum" \in DOMAIN g.data[c]
       /\ g.data[c] # initData(g).g.data[c]

\* without totals on the bars a refresh leaves the data model as it was
C15_KeptWithoutTotals ==
  (pc \in {"chart", "bars", "updated"} /\ ~totalsShown(g)) =>
    g.data = initData(g).g.data

\* finite x and y, finite and non-negative width and height
FiniteRect(b) ==
  /\ IsFinite(b.x) /\ IsFinite(b.y)
  /\ IsFinite(b.width) /\ ~NumLt(b.width, Num(0))
  /\ IsFinite(b.height) /\ ~NumLt(b.height, Num(0))

\* C20: the target geometry updateBars assigns to the bar of every Segment has
\* finite x and y and a finite, non-negative width and height, in vertical and
\* in horizontal orientation, whatever the qNum and offset of the Segment and
\* the size of the container.
C20_FiniteGeometry ==
  pc = "updated" => \A k \in 1..Len(g.bars) : FiniteRect(g.bars[k])

\* the vertical branch guards every attribute
C20_VerticalFinite ==
  (pc = "updated" /\ g.orientation = "V") =>
    \A k \in 1..Len(g.bars) : FiniteRect(g.bars[k])

\* a horizontal bar of a Segment with a NaN offset has a NaN x
C20_HorizontalNaN ==
  /\ pc = "updated"
  /\ g.orientation = "H"
  /\ g.width = 300
  /\ \E k \in 1..Len(g.bars) : IsNaN(g.flatData[k].offset) /\ IsNaN(g.bars[k].x)

\* a horizontal bar of a Segment with a negative qNum has a negative width
C20_HorizontalNegative ==
  /\ pc = "updated"
  /\ g.orientation = "H"
  /\ g.width = 300
  /\ \E k \in 1..Len(g.bars) :
       /\ NumLt(g.flatData[k].qNum, Num(0))
       /\ NumLt(g.bars[k].width, Num(0))

\* the labels of the Segments and of the totals once createBars or updateBars
\* has returned
Labelled == pc \in {"bars", "updated"}

TotalNodes == 1..Len(g.totals)

TextNodes == 1..Len(g.texts)

\* the Category of the k-th total as barText is given it
TotalDatum(k) == g.data[totalNode(g, k)]

\* C16: with barGap equal to 1, barText returns empty text for every Segment
\* and for every total, whatever the other text settings: createBars and
\* updateBars return, and every label they have placed is empty.
C16_GapSuppresses ==
  g.barGap = Num(1) =>
    /\ pc # "hung"
    /\ Labelled => /\ \A k \in TotalNodes : g.totals[k].text = ""
                   /\ \A k \in TextNodes : g.texts[k].text = ""

\* the labels barText returns under barGap 1 are empty
C16_EmptyWhenReturned ==
  (g.barGap = Num(1) /\ Labelled) =>
    /\ \A k \in TotalNodes : g.totals[k].text = ""
    /\ \A k \in TextNodes : g.texts[k].text = ""

\* barGap 1, vertical bars, totals shown: barText of the first total hangs
C16_TotalHangs ==
  /\ pc = "hung"
  /\ g.barGap = Num(1)
  /\ g.orientation = "V"
  /\ g.bars[1].width = Num(0)
  /\ totalsShown(g)

\* barGap 1 with labels in the bars only: every label is empty
C16_SegmentsEmpty ==
  /\ pc = "updated"
  /\ g.barGap = Num(1)
  /\ g.showTexts = "B"
  /\ Len(g.texts) > 0
  /\ \A k \in TextNodes : g.texts[k].text = ""

\* the label barText is given for the k-th Segment, for the k-th total
SegmentLabel(k) == getBarLabelText(g.flatData[k], g, FALSE)

TotalLabel(k) == getBarLabelText(TotalDatum(k), g, TRUE)

\* the measured width of the label fits the available width
LabelFits(d, label) ==
  NumLe(getComputedTextLength(g, label), availableWidth(g, d))

\* the label passes the height test, which horizontal bars are spared
HeightFits(d, label) ==
  \/ g.orientation # "V"
  \/ NumLe(NumAdd(getBBox(g, label).height, NumMul(Num(2), g.innerBarPadV)),
           bHeight(g, d))

\* the text the ellipsis-shrink step makes of a label
Shrunk(d, label) == shrink(g, availableWidth(g, d), label, label).txt

C17_WitnessShrunk ==
  /\ pc = "updated"
  /\ g.textDots /\ ~g.rotateLabel
  /\ g.orientation = "V"
  /\ g.textSize = 60
  /\ Len(g.texts) = 1
  /\ ~LabelFits(g.flatData[1], "North")
  /\ g.texts[1].text = "Nor" \o Ellipsis
  /\ LabelFits(g.flatData[1], g.texts[1].text)

\* a label 2 at text size 200 fits the width of its vertical bar and not its
\* height: barText returns the empty text
C17_FittingSuppressed ==
  /\ pc = "updated"
  /\ g.textDots /\ ~g.rotateLabel
  /\ g.orientation = "V"
  /\ g.barGap # Num(1)
  /\ Len(g.texts) = 1
  /\ SegmentLabel(1) = "2"
  /\ LabelFits(g.flatData[1], "2")
  /\ g.texts[1].text = ""

----------------------------------------------------------------------------
(* Properties of the click on a bar.                                       *)

\* the Segment of the bar clicked last
Clicked == g.flatData[g.clicked]

QuickClick == pc = "clicked" /\ g.selectionMode = "QUICK"

\* the dimensions and element ids of the calls, in the order of the calls
CallsMade == [i \in 1..Len(g.calls) |-> <<g.calls[i].dim, g.calls[i].ids>>]

\* C18 as stated: a click in QUICK mode issues exactly one selectValues call
\* (dimension 0, the element id) when one dimension is declared, exactly two
\* (dimension 1, then dimension 0, the pair of element ids) when two are, and
\* none when the selection key is -1.
C18_QuickCalls ==
  QuickClick =>
    /\ g.defDims = 1 =>
         /\ "scalar" \in DOMAIN Clicked.qElemNumber
         /\ CallsMade = <<<<0, <<Clicked.qElemNumber.scalar>>>>>>
    /\ g.defDims = 2 =>
         /\ "pair" \in DOMAIN Clicked.qElemNumber
         /\ CallsMade = <<<<1, <<Clicked.qElemNumber.pair[2]>>>>,
                          <<0, <<Clicked.qElemNumber.pair[1]>>>>>>
    /\ Clicked.qElemNumber = ElemScalar(-1) => CallsMade = <<>>

\* C18, amended: a click in QUICK mode issues no call when the selection key
\* is a negative number (-1 of a measure-only pseudo-dimension, -2 of a null
\* value of the one dimension); otherwise exactly one call (dimension 0, the
\* element id) when one dimension is declared, and exactly two (dimension 1,
\* then dimension 0, the pair of element ids) when two dimensions are declared
\* and the dim2 label of the Segment is not empty, none when it is empty.
C18_QuickCallsOfKey ==
  QuickClick =>
    IF "scalar" \in DOMAIN Clicked.qElemNumber /\ Clicked.qElemNumber.scalar < 0
    THEN CallsMade = <<>>
    ELSE /\ g.defDims = 0 => CallsMade = <<>>
         /\ g.defDims = 1 => CallsMade = <<<<0, <<Clicked.qElemNumber.scalar>>>>>>
         /\ g.defDims = 2 =>
              CallsMade = IF Clicked.dim2 = "" THEN <<>>
                          ELSE <<<<1, <<Clicked.qElemNumber.pair[2]>>>>,
                                 <<0, <<Clicked.qElemNumber.pair[1]>>>>>>

\* a click on the bar of a null value of the one dimension: no call
C18_Witness ==
  /\ QuickClick
  /\ g.defDims = 1
  /\ Clicked.qElemNumber = ElemScalar(-2)
  /\ g.calls = <<>>

\* a click on a bar of two dimensions: dimension 1, then dimension 0
C18_WitnessTwo ==
  /\ QuickClick
  /\ g.defDims = 2
  /\ Clicked.qElemNumber = ElemPair(0, 5)
  /\ CallsMade = <<<<1, <<5>>>>, <<0, <<0>>>>>>

\* a click on a bar of one dimension: one call
C18_WitnessOne ==
  /\ QuickClick
  /\ g.defDims = 1
  /\ Clicked.qElemNumber = ElemScalar(1)
  /\ CallsMade = <<<<0, <<1>>>>>>

\* a click on the bar of a measure without dimension: key -1, no call
C18_WitnessMeasure ==
  /\ QuickClick
  /\ g.defDims = 0
  /\ Clicked.qElemNumber = ElemScalar(-1)
  /\ g.calls = <<>>

----------------------------------------------------------------------------
(* Properties of paint.                                                    *)

Cycles == {g.cycles[c] : c \in 1..Len(g.cycles)}

\* C19: in a paint cycle initData and refreshChart run only after the cycle's
\* fetch updateColorSchemas has resolved and stored the schemas it fetched; if
\* the fetch rejects, neither runs in the cycle, and the error is logged and
\* rethrown.
C19_PaintAfterFetch ==
  \A cycle \in Cycles :
    /\ cycle.ran # <<>> =>
         /\ cycle.fetch = "fulfilled"
         /\ cycle.stored
    /\ cycle.fetch = "rejected" =>
         /\ cycle.ran = <<>>
         /\ cycle.colors = <<>>
         /\ cycle.then # "fulfilled"
         /\ cycle.caught # "fulfilled"
         /\ cycle.caught = "rejected" => cycle.logged = <<cycle.reason>> /\ raised

\* C19, the step: the callback's calls are made in a step that starts with
\* the cycle's fetch fulfilled and its schemas stored
C19_CallbackStep ==
  [][\A c \in 1..Len(g.cycles) :
       (g.cycles[c].ran = <<>> /\ g'.cycles[c].ran # <<>>) =>
         g.cycles[c].fetch = "fulfilled" /\ g.cycles[c].stored]_vars

\* a cycle in edit mode whose refresh gave the colour scale the colours of the
\* fetched schema
C19_Witness ==
  \E cycle \in Cycles :
    /\ cycle.ran = <<"initProps", "initData", "refreshChart">>
    /\ cycle.colors = <<"#08f", "#00f">>
    /\ cycle.caught = "fulfilled"
    /\ Len(g.chart.bars) = 1

\* a cycle whose fetch was rejected by the host: nothing ran, the error is
\* logged and thrown again
C19_WitnessRejected ==
  \E cycle \in Cycles :
    /\ cycle.applied = "rejected"
    /\ cycle.ran = <<>>
    /\ cycle.logged = <<"NetworkError">>
    /\ cycle.caught = "rejected"

\* a cycle whose theme has no scales: the fetch rejects before it stores
C19_WitnessNoScales ==
  \E cycle \in Cycles :
    /\ cycle.applied = "fulfilled"
    /\ ~cycle.stored
    /\ cycle.logged = <<"TypeError">>
    /\ cycle.ran = <<>>

\* a cycle outside edit mode: the fetch resolved and the callback ran neither
\* initData nor refreshChart
C19_WitnessNoEdit ==
  \E cycle \in Cycles :
    /\ cycle.then = "fulfilled"
    /\ cycle.ran = <<>>

\* a cycle whose refresh raised: the handler logs that error too
C19_WitnessRefreshRaised ==
  \E cycle \in Cycles :
    /\ cycle.fetch = "fulfilled"
    /\ cycle.ran # <<>>
    /\ cycle.logged = <<"TypeError">>

----------------------------------------------------------------------------
(* Properties of the magnitude scale of initChart.                         *)

Totals == {g.data[c].offset : c \in 1..Len(g.data)}

\* the tallest Category total, for totals that are numbers
Tallest == CHOOSE t \in Totals : \A u \in Totals : ~NumLt(t, u)

\* C21: in initChart, for data that is not normalized and whose Category
\* totals are all >= 0, g.max is the tallest Category total times gridHeight,
\* in normalized mode it is gridHeight, and the domain of the magnitude scale
\* is the nice-rounding of [0, g.max], g.max replaced by 1 only when it is
\* not greater than 0.
C21_ScaleDomain ==
  (pc = "chart" /\ Len(g.data) > 0) =>
    /\ g.normalized => g.max = g.gridHeight
    /\ (~g.normalized /\ \A t \in Totals : NumLe(Num(0), t)) =>
         g.max = NumMul(Tallest, g.gridHeight)
    /\ g.mScale.domain = nice(<<Num(0), IF NumLt(Num(0), g.max) THEN g.max ELSE Num(1)>>)

\* a Category of total 0, not normalized: g.max is gridHeight, not 0
C21_ZeroTotal ==
  /\ pc = "chart"
  /\ ~g.normalized
  /\ Totals = {Num(0)}
  /\ g.max = g.gridHeight

\* a Category of 2 and -1, total 1: g.max is 2 * gridHeight
C21_MixedSigns ==
  /\ pc = "chart"
  /\ ~g.normalized
  /\ Totals = {Num(1)}
  /\ g.max = NumMul(Num(2), g.gridHeight)

\* a Category of total 2: g.max is 2 * gridHeight
C21_PlainTotal ==
  /\ pc = "chart"
  /\ ~g.normalized
  /\ Totals = {Num(2)}
  /\ g.max = NumMul(Num(2), g.gridHeight)
  /\ g.mScale.domain = <<Num(0), Rat(22, 10)>>

\* C22: initChart completes without raising for every data model of initData,
\* a Category of negative total with one Segment included, and for every
\* container size, zero included.
C22_InitChartCompletes == pc # "raised" /\ ~raised

\* initChart raised for a Category of negative total with one Segment
C22_OneSegmentRaises ==
  /\ pc = "raised"
  /\ \E c \in 1..Len(g.data) :
       /\ NumLt(g.data[c].offset, Num(0))
       /\ Len(g.data[c].values) = 1
  /\ "max" \notin DOMAIN g

\* initChart completed for a Category of negative total with two Segments
C22_TwoSegments ==
  /\ pc = "chart"
  /\ \E c \in 1..Len(g.data) :
       /\ NumLt(g.data[c].offset, Num(0))
       /\ Len(g.data[c].values) = 2

\* initChart completed in a container of size zero
C22_ZeroSize == pc = "chart" /\ g.width = 0 /\ g.height = 0

----------------------------------------------------------------------------
(* Properties of toposort.                                                 *)

EdgeSet == {g.edges[e] : e \in 1..Len(g.edges)}

\* R with the pairs joined by two consecutive pairs of R
Joined(R) ==
  R \cup {<<x[1][1], x[2][2]>> : x \in {y \in R \X R : y[1][2] = y[2][1]}}

\* the pairs joined by a path of R of up to 2^k edges
RECURSIVE Closure(_, _)
Closure(R, k) == IF k = 0 THEN R ELSE Closure(Joined(R), k - 1)

\* the edges contain a cycle, a self-loop included
Cyclic == \E n \in Range(g.nodes) : <<n, n>> \in Closure(EdgeSet, Len(g.nodes))

\* C23: for a duplicate-free node list and edges between those nodes, toposort
\* returns a permutation of the nodes in which from precedes to for every
\* edge when the edges are acyclic, and throws the cyclic-dependency error
\* when they contain a cycle, a self-loop included.
C23_Toposort ==
  pc = "sorted" =>
    IF Cyclic THEN g.thrown
    ELSE /\ ~g.thrown
         /\ Len(g.sorted) = Len(g.nodes)
         /\ Range(g.sorted) = Range(g.nodes)
         /\ \A e \in EdgeSet : IndexOf(g.sorted, e[1]) < IndexOf(g.sorted, e[2])

\* an order that differs from the node list, forced by two edges
C23_Witness ==
  /\ pc = "sorted"
  /\ g.nodes = <<"a", "b", "c">>
  /\ g.edges = <<<<"c", "b">>, <<"b", "a">>>>
  /\ g.sorted = <<"c", "b", "a">>
  /\ ~g.thrown

\* a cycle of three nodes throws
C23_WitnessCycle ==
  /\ pc = "sorted"
  /\ g.edges = <<<<"a", "b">>, <<"b", "c">>, <<"c", "a">>>>
  /\ g.thrown

\* a self-loop throws
C23_WitnessSelfLoop ==
  /\ pc = "sorted"
  /\ g.edges = <<<<"b", "b">>>>
  /\ g.thrown

----------------------------------------------------------------------------
(* Properties of the labels of barText.                                    *)

\* the height of the label with its padding is within the height of the bar
HeightWithin(d, label) ==
  NumLe(NumAdd(getBBox(g, label).height, NumMul(Num(2), g.innerBarPadV)),
        bHeight(g, d))

\* text is a proper prefix of the label, not empty, followed by the ellipsis
Truncated(label, text) ==
  \E n \in 1..(Len(label) - 1) : text = SubSeq(label, 1, n) \o Ellipsis

\* C24: barText for the label of a Segment, without rotation, with barGap
\* different from 1 and the label's height fitting the bar: a label whose
\* width fits the available width is returned whole; one that does not fit is
\* returned empty with textDots off, and with textDots on either empty or as a
\* proper prefix followed by an ellipsis, of a measured width within the
\* available width.
C24_SegmentLabel ==
  (Labelled /\ ~g.rotateLabel /\ g.barGap # Num(1)) =>
    \A k \in TextNodes :
      HeightWithin(g.flatData[k], SegmentLabel(k)) =>
        IF LabelFits(g.flatData[k], SegmentLabel(k))
        THEN g.texts[k].text = SegmentLabel(k)
        ELSE IF ~g.textDots THEN g.texts[k].text = ""
        ELSE \/ g.texts[k].text = ""
             \/ /\ Truncated(SegmentLabel(k), g.texts[k].text)
                /\ LabelFits(g.flatData[k], g.texts[k].text)

\* the label North at text size 60 is returned as Nor and the ellipsis
C24_Witness ==
  /\ pc = "updated"
  /\ ~g.rotateLabel /\ g.textDots /\ g.barGap # Num(1)
  /\ Len(g.texts) = 1
  /\ SegmentLabel(1) = "North"
  /\ HeightWithin(g.flatData[1], "North")
  /\ ~LabelFits(g.flatData[1], "North")
  /\ g.texts[1].text = "Nor" \o Ellipsis

\* with textDots off the same label is returned empty
C24_WitnessNoDots ==
  /\ pc = "updated"
  /\ ~g.rotateLabel /\ ~g.textDots /\ g.barGap # Num(1)
  /\ Len(g.texts) = 1
  /\ SegmentLabel(1) = "North"
  /\ HeightWithin(g.flatData[1], "North")
  /\ ~LabelFits(g.flatData[1], "North")
  /\ g.texts[1].text = ""

\* a horizontal bar of a Category of total 0 under normalization: the
\* available width is NaN, the label does not fit, and with textDots on it is
\* returned whole
C24_NaNWidth ==
  /\ pc = "updated"
  /\ g.orientation = "H" /\ g.normalized /\ g.width = 300
  /\ ~g.rotateLabel /\ g.textDots /\ g.barGap # Num(1)
  /\ Len(g.texts) = 1
  /\ IsNaN(availableWidth(g, g.flatData[1]))
  /\ HeightWithin(g.flatData[1], SegmentLabel(1))
  /\ ~LabelFits(g.flatData[1], SegmentLabel(1))
  /\ SegmentLabel(1) = "0"
  /\ g.texts[1].text = "0"

\* a label that fits is returned whole
C24_WitnessWhole ==
  /\ pc = "updated"
  /\ ~g.rotateLabel /\ g.barGap # Num(1)
  /\ Len(g.texts) = 1
  /\ SegmentLabel(1) = "North"
  /\ HeightWithin(g.flatData[1], "North")
  /\ LabelFits(g.flatData[1], "North")
  /\ g.texts[1].text = "North"

\* C25: for a total label in vertical orientation the truncation loop of
\* barText terminates for every label and every bar width, a width of 0 or one
\* narrower than the ellipsis included; in horizontal orientation the loop is
\* never entered.
C25_TotalLoopEnds == pc # "hung"

\* vertical bars of width 0, a total label that is not empty: the loop shrinks
\* the label to empty and goes on, the ellipsis being wider than the bar
C25_HangsAtZeroWidth ==
  /\ pc = "hung"
  /\ g.orientation = "V"
  /\ totalsShown(g)
  /\ g.bars[1].width = Num(0)
  /\ getBarLabelText(g.data[1], g, TRUE) = "2"
  /\ NumLt(g.bars[1].width, getComputedTextLength(g, Ellipsis))

\* horizontal bars with totals shown: createBars and updateBars return
C25_HorizontalReturns ==
  /\ pc = "updated"
  /\ g.orientation = "H"
  /\ totalsShown(g)
  /\ Len(g.totals) > 0

----------------------------------------------------------------------------
(* Properties of the frame of initData.                                    *)

\* the fields of the chart state that the header of initData does not list
\* among its outputs
Configured(gg) ==
  [rawData |-> gg.rawData, defDims |-> gg.defDims, defMeas |-> gg.defMeas,
   measures |-> gg.measures, normalized |-> gg.normalized,
   showDeltas |-> gg.showDeltas]

\* C28: initData writes only the outputs its header documents (g.data,
\* g.flatData, g.allDim2, g.allCol2, g.nDims, g.deltas): every other field of
\* the chart state, g.normalized and g.showDeltas included, has the same value
\* after the call as before.
C28_InitDataFrame ==
  [][pc = "props" => Configured(g') = Configured(g)]_vars

\* a two-dimension pass keeps the configuration
C28_TwoDimKeeps ==
  [][(pc = "props" /\ pc' = "twoDim") => Configured(g') = Configured(g)]_vars

----------------------------------------------------------------------------
(* Properties of the identity of the Categories.                           *)

\* C30: after initData the Categories of g.data have pairwise distinct dim1
\* labels, in single-dimension mode (rows or measure names that repeat a label
\* included) as in two-dimension mode.
C30_DistinctDim1 ==
  Passed =>
    \A i, j \in 1..Len(g.data) : i # j => g.data[i].dim1 # g.data[j].dim1

\* measures only, two measures of the same name: two Categories of one label
C30_SameMeasureName ==
  /\ pc = "oneDim"
  /\ g.defDims = 0
  /\ g.measures = <<"M", "M">>
  /\ Len(g.data) = 2
  /\ g.data[1].dim1 = g.data[2].dim1

\* one dimension, two rows of the same label: two Categories of one label
C30_SameRowLabel ==
  /\ pc = "oneDim"
  /\ g.defDims = 1
  /\ g.defMeas = 1
  /\ Len(g.data) = 2
  /\ g.data[1].dim1 = g.data[2].dim1

\* C30 in two-dimension mode: the Categories have pairwise distinct labels
C30_TwoDimDistinct ==
  pc = "twoDim" =>
    \A i, j \in 1..Len(g.data) : i # j => g.data[i].dim1 # g.data[j].dim1

\* two-dimension mode with rows that repeat a dim1 label: one Category
C30_TwoDimMerged ==
  /\ pc = "twoDim"
  /\ Len(g.rawData) = 2
  /\ g.rawData[1][1].qText = g.rawData[2][1].qText
  /\ Len(g.data) = 1

----------------------------------------------------------------------------
(* Properties of overlapping paints.                                       *)

\* every paint cycle has run to the end of its promise chain
AllPainted ==
  /\ Len(g.cycles) > 0
  /\ \A c \in 1..Len(g.cycles) : g.cycles[c].caught # "pending"

\* the cycles whose fetch stored its schemas
Storing == {c \in 1..Len(g.cycles) : g.cycles[c].stored}

\* the cycle started last among those that stored
LastStoring == CHOOSE c \in Storing : \A d \in Storing : d <= c

\* C29: after any interleaving of overlapping paint calls has completed, the
\* colorSchemas of the module are those fetched by the paint started last, and
\* every paint's refreshChart builds its colour scale from the schemas of that
\* paint's own fetch.
C29_LatestPaintWins ==
  AllPainted =>
    /\ Storing # {} =>
         g.colorSchemas = schemasOf(g.cycles[LastStoring].theme.scales)
    /\ \A c \in 1..Len(g.cycles) :
         g.cycles[c].colors # <<>> =>
           \E schema \in PaintedSchemas :
             g.cycles[c].colors =
               getColorSchemaByName(schemasOf(g.cycles[c].theme.scales), schema).colors

\* the fetch of the first paint resolved after that of the second and its
\* schemas replaced those of the second
C29_EarlierOverwrites ==
  /\ AllPainted
  /\ Len(g.cycles) = 2
  /\ Storing = {1, 2}
  /\ schemasOf(g.cycles[1].theme.scales) # schemasOf(g.cycles[2].theme.scales)
  /\ g.colorSchemas = schemasOf(g.cycles[1].theme.scales)

\* the refresh of the first paint built its colour scale from the schemas the
\* second paint fetched
C29_ForeignColours ==
  /\ AllPainted
  /\ Len(g.cycles) = 2
  /\ g.cycles[1].theme.scales = <<Scale("Heat", "gradient", <<"#f00">>),
                                 Scale("Blues", "class-pyramid", <<"#08f", "#00f">>)>>
  /\ g.cycles[1].colors = <<"#0f0">>

\* paints that do not overlap: each ran its whole chain before the next began
C29_OneByOne ==
  /\ AllPainted
  /\ Len(g.cycles) = 2
  /\ Storing = {1, 2}
  /\ g.colorSchemas = schemasOf(g.cycles[2].theme.scales)
  /\ g.cycles[1].colors = <<"#08f", "#00f">>
  /\ g.cycles[2].colors = <<"#0f0">>

----------------------------------------------------------------------------
(* Properties of the document under updateBars and refreshChart.           *)

\* the last call has returned and no transition is scheduled or running
Settled == pc = "drawn" /\ ~InFlight(g.dom)

\* the keys are pairwise distinct
Distinct(keys) == \A i, j \in 1..Len(keys) : i # j => keys[i] # keys[j]

\* one node for every datum and one datum for every node, by key
OneToOne(nodes, keys) ==
  /\ Len(nodes) = Len(keys)
  /\ Distinct(nodeKeys(nodes))
  /\ \A k \in 1..Len(keys) : Contains(nodeKeys(nodes), keys[k])

\* bar k is bound to g.flatData[k] and shows it at full opacity
BarsDrawn ==
  /\ Len(g.dom.bars) = Len(g.chart.flatData)
  /\ \A k \in 1..Len(g.dom.bars) :
       /\ g.dom.bars[k].datum = g.chart.flatData[k]
       /\ g.dom.bars[k].opacity = "1"
       /\ g.dom.bars[k].shape = g.chart.bars[k]

\* a node on which no transition has started is transparent, and a bar has
\* no length along the measure axis
Entering(node) == node.active = 0

EnteringBar(gg, node) ==
  /\ node.opacity = "0"
  /\ IF gg.orientation = "V" THEN node.shape.height = Num(0)
     ELSE node.shape.width = Num(0)

\* C26: once updateBars has run and its transitions have completed, the
\* bars are one-to-one with g.flatData, at opacity 1 and at their target
\* geometry, the totals are one-to-one by dim1 with g.data and the polygons
\* one-to-one by their key with g.deltas; no node of an absent datum is left
C26_UpdateSettles ==
  Settled =>
    /\ BarsDrawn
    /\ totalsShown(g.chart) => OneToOne(g.dom.totals, dim1Labels(g.chart))
    /\ deltasShown(g.chart) => OneToOne(g.dom.polys, polyKeys(g.chart))

\* a settled chart of two Categories of one label shows one total
C26_OneTotalOfTwo ==
  /\ Settled
  /\ g.call = "updateBars"
  /\ totalsShown(g.chart)
  /\ Len(g.chart.data) = 2
  /\ Len(g.dom.totals) = 1
  /\ BarsDrawn

\* with pairwise distinct dim1 labels the settled document is one-to-one
\* with the data model
C26_DistinctSettles ==
  (Settled /\ Distinct(dim1Labels(g.chart))) =>
    /\ BarsDrawn
    /\ totalsShown(g.chart) => OneToOne(g.dom.totals, dim1Labels(g.chart))
    /\ deltasShown(g.chart) => OneToOne(g.dom.polys, polyKeys(g.chart))

\* a settled chart after updateBars has faded a bar, a total and a polygon
\* out and removed them
C26_Removed ==
  /\ Settled
  /\ g.call = "updateBars"
  /\ g.round = 2
  /\ totalsShown(g.chart)
  /\ Len(g.chart.data) = 1
  /\ Len(g.dom.bars) = 1 /\ Len(g.dom.totals) = 1 /\ Len(g.dom.polys) = 0
  /\ g.chart.nDims = 2

\* a node on which no transition has started yet is transparent and a bar
\* among them has no length
C26_EnterFromNothing ==
  /\ \A k \in 1..Len(g.dom.bars) :
       Entering(g.dom.bars[k]) => EnteringBar(g.chart, g.dom.bars[k])
  /\ \A k \in 1..Len(g.dom.totals) :
       Entering(g.dom.totals[k]) => g.dom.totals[k].opacity = "0"
  /\ \A k \in 1..Len(g.dom.polys) :
       Entering(g.dom.polys[k]) => g.dom.polys[k].opacity = "0"

\* a bar created by updateBars whose transition has not started
C26_Entered ==
  /\ g.call = "updateBars"
  /\ \E k \in 1..Len(g.dom.bars) : Entering(g.dom.bars[k])

\* while a transition is scheduled or running, a timer can fire
C26_TransitionsProceed ==
  (pc = "drawn" /\ InFlight(g.dom)) => ENABLED (TransitionsStart \/ TransitionsEnd)

\* the total of every label, at the place its latest barText gave it
TotalsLatest ==
  /\ \A k \in 1..Len(g.dom.totals) :
       /\ Contains(dim1Labels(g.chart), g.dom.totals[k].datum)
       /\ g.dom.totals[k].opacity = "1"
       /\ g.dom.totals[k].shape =
            totalTarget(g.chart.totals[IndexOf(FirstSeen(dim1Labels(g.chart)),
                                               g.dom.totals[k].datum)])
  /\ \A c \in 1..Len(g.chart.data) :
       Contains(nodeKeys(g.dom.totals), g.chart.data[c].dim1)

\* the polygon of every delta, at the opacity of the latest call
PolysLatest ==
  /\ \A k \in 1..Len(g.dom.polys) :
       /\ Contains(polyKeys(g.chart), g.dom.polys[k].datum)
       /\ g.dom.polys[k].opacity = polyOpacity(g.chart)
  /\ \A k \in 1..Len(g.chart.deltas) :
       Contains(nodeKeys(g.dom.polys), polyKey(g.chart.deltas[k]))

\* C27: when updateBars or refreshChart was called while transitions of an
\* earlier call were scheduled or running, then once every transition has
\* finished each node is at the target of the latest call, and every datum
\* of the latest data has kept its node
C27_LatestCallWins ==
  (Settled /\ g.overlapped) =>
    /\ BarsDrawn
    /\ totalsShown(g.chart) => TotalsLatest
    /\ deltasShown(g.chart) => PolysLatest

\* a chart settled after a call that overlapped the transitions of an
\* earlier one
C27_Witness ==
  /\ Settled
  /\ g.overlapped
  /\ g.round = 3
  /\ Len(g.dom.bars) = 2 /\ Len(g.dom.totals) = 2 /\ Len(g.dom.polys) = 1

\* a bar that an earlier call fades out and removes and a later call, made
\* while the fade is running, moves to its place in the new data
C27_ExitSuperseded ==
  \E k \in 1..Len(g.dom.bars) :
    \E t1, t2 \in g.dom.bars[k].lock :
      t1.exit /\ ~t2.exit /\ t1.id < t2.id /\ g.dom.bars[k].active = t1.id

\* a refreshChart called while transitions of updateBars are running
C27_RefreshOverlaps == g.call = "refreshChart" /\ g.overlapped /\ pc = "drawn"

====
